---------------------------- MODULE Spec2Model ----------------------------
(***************************************************************************)
(* A model of the geometric subdivision engine of luminary: Triangle ->    *)
(* Facet -> Beam construction, the Beam constructor, and the shared        *)
(* Segment/Ray/Line intersection routine.                                  *)
(*                                                                         *)
(* Numbers.  The program computes in IEEE doubles.  The model computes in  *)
(* exact integer/rational arithmetic and draws its inputs from sets on     *)
(* which the program's arithmetic is exact as well (integral side lengths, *)
(* integral incenter and midpoints), so that every comparison the program  *)
(* makes has the same outcome in the model.  Distances are compared by     *)
(* their squares (sqrt is monotone).  Indices are 0-based as in the source;*)
(* a sequence s is read at s[i + 1].                                       *)
(***************************************************************************)
EXTENDS Integers, Sequences, FiniteSets, TLC

VARIABLES
    tri,    \* the Triangle.__init__ frame (Spec)
    beam,   \* a direct call of the Beam constructor (SpecBeam)
    lin,    \* a call of Segment/Ray/Line.intersection (SpecIsect)
    net,    \* the Net.__init__ frame (SpecNet)
    prim,   \* a call on a Polygon or an OrientedSegment (SpecPrim)
    srv     \* the PatternAnimationServer and its asyncio tasks (SpecServer)

vars == <<tri, beam, lin, net, prim, srv>>

Idle == [pc |-> "idle"]

---------------------------------------------------------------------------
(* Integer helpers *)

Abs(n) == IF n < 0 THEN -n ELSE n

Sgn(n) == IF n > 0 THEN 1 ELSE IF n < 0 THEN -1 ELSE 0

\* math.sqrt on a perfect square (the inputs keep it to perfect squares)
ISqrt(n) == CHOOSE r \in 0..n : r * r = n

---------------------------------------------------------------------------
(* Point and Vector: pairs <<x, y>> *)

\* Point.__sub__ with a Point: p - q is the Vector from q to p
PointSub(p, q) == <<p[1] - q[1], p[2] - q[2]>>

\* Point.__add__ with a Vector
PointAdd(p, v) == <<p[1] + v[1], p[2] + v[2]>>

VecScale(v, k) == <<v[1] * k, v[2] * k>>

cross_product(v, w) == v[1] * w[2] - v[2] * w[1]

dot_product(v, w) == v[1] * w[1] + v[2] * w[2]

perpendicular_counterclockwise(v) == <<-v[2], v[1]>>

\* the square of Vector.length
length2(v) == v[1] * v[1] + v[2] * v[2]

\* the square of Point.distance
distance2(p, q) == length2(PointSub(q, p))

\* Point.midpoint_to (exact on the inputs: coordinate sums are even)
midpoint_to(p, q) == <<(p[1] + q[1]) \div 2, (p[2] + q[2]) \div 2>>

\* Segment.length (only taken of segments with a perfect-square length2)
SegmentLength(p, q) == ISqrt(distance2(p, q))

---------------------------------------------------------------------------
(* Triangle (src/luminary/geometry/triangle.py) *)

CalculateIncenterAdjacent(vs) ==
    LET a == SegmentLength(vs[1], vs[2])
        b == SegmentLength(vs[2], vs[3])
        c == SegmentLength(vs[3], vs[1])
    IN  IF a + b + c = 0
        THEN vs[1]
        ELSE <<(a * vs[1][1] + b * vs[2][1] + c * vs[3][1]) \div (a + b + c),
               (a * vs[1][2] + b * vs[2][2] + c * vs[3][2]) \div (a + b + c)>>

CalculateIncenterCentroid(vs) ==
    <<(vs[1][1] + vs[2][1] + vs[3][1]) \div 3, (vs[1][2] + vs[2][2] + vs[3][2]) \div 3>>

\* Triangle._calculate_incenter: I = (a*A + b*B + c*C) / (a + b + c), a, b, c
\* the lengths of the sides opposite p1, p2, p3; the centroid when the
\* perimeter is 0.  The divisions are exact on the inputs.
CalculateIncenter(vs) ==
    LET p1 == vs[1]
        p2 == vs[2]
        p3 == vs[3]
        a == SegmentLength(p2, p3)
        b == SegmentLength(p1, p3)
        c == SegmentLength(p1, p2)
        perimeter == a + b + c
    IN  IF perimeter = 0
        THEN <<(p1[1] + p2[1] + p3[1]) \div 3, (p1[2] + p2[2] + p3[2]) \div 3>>
        ELSE <<(a * p1[1] + b * p2[1] + c * p3[1]) \div perimeter,
               (a * p1[2] + b * p2[2] + c * p3[2]) \div perimeter>>

\* Triangle.__init__, edge_midpoints: [p1-p2, p2-p3, p3-p1]
EdgeMidpoints(vs) ==
    <<midpoint_to(vs[1], vs[2]), midpoint_to(vs[2], vs[3]), midpoint_to(vs[3], vs[1])>>

\* the number of vertices strictly closer to the apex than the incenter is
VerticesCloserCount(vs, incenter, apex) ==
    Cardinality({i \in 1..3 : distance2(vs[i], apex) < distance2(incenter, apex)})

DetermineOrientationLe(vs, incenter, apex) ==
    IF Cardinality({i \in 1..3 : distance2(vs[i], apex) <= distance2(incenter, apex)}) = 1
    THEN "APEXWARD"
    ELSE "NADIRWARD"

\* Triangle._determine_orientation
DetermineOrientation(vs, incenter, apex) ==
    IF VerticesCloserCount(vs, incenter, apex) = 1 THEN "APEXWARD" ELSE "NADIRWARD"

\* Triangle._get_facet_labels
GetFacetLabels(orientation) ==
    IF orientation = "APEXWARD" THEN <<"A", "B", "C">> ELSE <<"D", "E", "F">>

\* min(vertex_distances, key=distance)[0]: the first index of least distance
MinDistanceIdx(vs, apex) ==
    CHOOSE i \in 0..2 :
        /\ \A j \in 0..2 : distance2(vs[i + 1], apex) <= distance2(vs[j + 1], apex)
        /\ \A j \in 0..(i - 1) : distance2(vs[j + 1], apex) > distance2(vs[i + 1], apex)

\* max(vertex_distances, key=distance)[0]: the first index of greatest distance
MaxDistanceIdx(vs, apex) ==
    CHOOSE i \in 0..2 :
        /\ \A j \in 0..2 : distance2(vs[i + 1], apex) >= distance2(vs[j + 1], apex)
        /\ \A j \in 0..(i - 1) : distance2(vs[j + 1], apex) < distance2(vs[i + 1], apex)

StartVertexIdxAlwaysMin(vs, apex, orientation) == MinDistanceIdx(vs, apex)

\* Triangle._create_facets, lines 187-198: the starting vertex
StartVertexIdx(vs, apex, orientation) ==
    IF orientation = "APEXWARD" THEN MinDistanceIdx(vs, apex) ELSE MaxDistanceIdx(vs, apex)

\* Triangle._get_counterclockwise_order: the indices made counterclockwise
\* (lines 163-168) and then the last two exchanged (line 171)
GetCounterclockwiseOrder(vs, start_vertex_idx) ==
    LET indices == <<start_vertex_idx, (start_vertex_idx + 1) % 3, (start_vertex_idx + 2) % 3>>
        v1 == vs[indices[1] + 1]
        v2 == vs[indices[2] + 1]
        v3 == vs[indices[3] + 1]
        cross == cross_product(PointSub(v2, v1), PointSub(v3, v1))
        ordered_indices == IF cross > 0
                           THEN indices
                           ELSE <<indices[1], indices[3], indices[2]>>
    IN  <<ordered_indices[1], ordered_indices[3], ordered_indices[2]>>

FacetVerticesOpposite(vs, edge_midpoints, incenter, vertex_idx) ==
    <<vs[vertex_idx + 1],
      edge_midpoints[vertex_idx + 1],
      incenter,
      edge_midpoints[((vertex_idx + 1) % 3) + 1]>>

\* Triangle._create_facets, lines 208-214: the vertex tuple handed to Facet
\* (vertex, midpoint1, incenter, midpoint2)
FacetVertices(vs, edge_midpoints, incenter, vertex_idx) ==
    <<vs[vertex_idx + 1],
      edge_midpoints[vertex_idx + 1],
      incenter,
      edge_midpoints[((vertex_idx + 2) % 3) + 1]>>

---------------------------------------------------------------------------
(* Segment, Ray, Line (src/luminary/geometry/primitives.py)                *)
(*                                                                         *)
(* A linear element is [kind, p1, p2].  Its points are on an integer grid  *)
(* whose unit is 1/unitDen of the program's unit: unitDen = 1 is geometry  *)
(* of ordinary size, a large unitDen is the same geometry shrunk.  The     *)
(* parameters t1, t2 are ratios and do not depend on the unit; the cross   *)
(* product of the direction vectors does (by unitDen^2).                   *)

\* 1e-10 = 1 / TolRoot^2, the tolerance of primitives.py lines 158, 196-204
TolRoot == 100000

RECURSIVE GCD(_, _)
GCD(a, b) == IF b = 0 THEN Abs(a) ELSE GCD(b, a % Abs(b))

\* abs(c / unitDen^2) < 1e-10, exactly: c = 0, or TolRoot^2 * abs(c) is
\* below unitDen^2 (a non-zero integer c needs unitDen > TolRoot for that)
BelowTol(c, unitDen) ==
    LET g == GCD(unitDen, TolRoot)
        a == unitDen \div g
        b == TolRoot \div g
    IN  c = 0 \/ (a > b /\ Abs(c) * b * b < a * a)

\* n / d >= -1e-10  (d # 0)
GeNegTol(n, d) ==
    LET m == n * Sgn(d)
    IN  m >= 0 \/ (-m) * TolRoot <= Abs(d) \div TolRoot

\* n / d <= 1 + 1e-10  (d # 0)
LeOnePlusTol(n, d) ==
    LET m == n * Sgn(d) - Abs(d)
    IN  m <= 0 \/ m * TolRoot <= Abs(d) \div TolRoot

\* the point (xn / d, yn / d) as a rational point <<x, y, den>> in lowest
\* terms with den > 0
RP(xn, yn, d) ==
    LET g == GCD(GCD(xn, yn), d) * Sgn(d)
    IN  <<xn \div g, yn \div g, d \div g>>

\* a grid point as a rational point
RPoint(p) == <<p[1], p[2], 1>>

None == [some |-> FALSE]

\* LinearElement._line_intersection_t: t1 = t1n / d and t2 = t2n / d, or None
\* when abs(denom) < 1e-10
LineIntersectionT(self, other, unitDen) ==
    LET vec1 == PointSub(self.p2, self.p1)
        vec2 == PointSub(other.p2, other.p1)
        denom == cross_product(vec1, vec2)
        vec3 == PointSub(other.p1, self.p1)
    IN  IF BelowTol(denom, unitDen)
        THEN None
        ELSE [some |-> TRUE,
              t1n |-> cross_product(vec3, vec2),
              t2n |-> cross_product(vec3, vec1),
              d |-> denom]

SelfInBoundsRayAsLine(kind, n, d) ==
    CASE kind = "Segment" -> GeNegTol(n, d) /\ LeOnePlusTol(n, d)
      [] kind = "Ray" -> TRUE
      [] kind = "Line" -> TRUE

\* the check each class makes of its own parameter t1: Segment.intersection
\* line 196, Ray.intersection line 260, Line.intersection none
SelfInBounds(kind, n, d) ==
    CASE kind = "Segment" -> GeNegTol(n, d) /\ LeOnePlusTol(n, d)
      [] kind = "Ray" -> GeNegTol(n, d)
      [] kind = "Line" -> TRUE

\* the isinstance chain on the other element, the same in the three classes
\* (lines 200-206, 264-270, 299-305); an OrientedSegment is a Segment
OtherInBounds(kind, n, d) ==
    CASE kind = "Segment" -> GeNegTol(n, d) /\ LeOnePlusTol(n, d)
      [] kind = "Ray" -> GeNegTol(n, d)
      [] kind = "Line" -> TRUE

\* Segment.intersection / Ray.intersection / Line.intersection: the point
\* p1 + t1 * (p2 - p1) as a rational point, or None
Intersection(self, other, ignore_bounds, unitDen) ==
    LET t == LineIntersectionT(self, other, unitDen)
    IN  IF ~t.some
        THEN None
        ELSE IF /\ ~ignore_bounds
                /\ \/ ~SelfInBounds(self.kind, t.t1n, t.d)
                   \/ ~OtherInBounds(other.kind, t.t2n, t.d)
             THEN None
             ELSE [some |-> TRUE,
                   pt |-> RP(self.p1[1] * t.d + t.t1n * (self.p2[1] - self.p1[1]),
                             self.p1[2] * t.d + t.t1n * (self.p2[2] - self.p1[2]),
                             t.d)]

---------------------------------------------------------------------------
(* Polygon (primitives.py) and Point.is_inside_polygon (point.py)          *)
(*                                                                         *)
(* A polygon is a sequence of rational points <<xn, yn, d>>.               *)

SetInside(inside) == TRUE

\* line 165: inside = not inside
ToggleInside(inside) == ~inside

\* line 164, for the edge from vertices[j] to vertices[i]:
\* ((yi > y) != (yj > y)) and (x < (xj - xi) * (y - yi) / (yj - yi) + xi),
\* all coordinates brought to the common denominator of P, Vi and Vj
EdgeIsCrossed(P, Vi, Vj) ==
    LET x == P[1] * Vi[3] * Vj[3]
        y == P[2] * Vi[3] * Vj[3]
        xi == Vi[1] * P[3] * Vj[3]
        yi == Vi[2] * P[3] * Vj[3]
        xj == Vj[1] * P[3] * Vi[3]
        yj == Vj[2] * P[3] * Vi[3]
    IN  /\ (yi > y) # (yj > y)
        /\ IF yj - yi > 0
           THEN (x - xi) * (yj - yi) < (xj - xi) * (y - yi)
           ELSE (x - xi) * (yj - yi) > (xj - xi) * (y - yi)

\* lines 159-166: the loop over i in range(n), j the index before i
RECURSIVE IsInsideLoop(_, _, _, _, _)
IsInsideLoop(P, vertices, i, j, inside) ==
    IF i >= Len(vertices)
    THEN inside
    ELSE IsInsideLoop(P, vertices, i + 1, i,
                      IF EdgeIsCrossed(P, vertices[i + 1], vertices[j + 1])
                      THEN ToggleInside(inside)
                      ELSE inside)

\* Point.is_inside_polygon
is_inside_polygon(P, vertices) ==
    IF Len(vertices) = 0
    THEN FALSE
    ELSE IsInsideLoop(P, vertices, 0, Len(vertices) - 1, FALSE)

\* Polygon.is_inside
is_inside(vertices, point) == is_inside_polygon(point, vertices)

---------------------------------------------------------------------------
(* OrientedSegment and Beam (primitives.py, beam.py) *)

\* OrientedSegment.__init__ for a two-entry dict given as its items in
\* insertion order: p1, p2 are the first and second value
OrientedSegment(items) ==
    [kind |-> "Segment",
     p1 |-> items[1][2], p2 |-> items[2][2],
     p1_label |-> items[1][1], p2_label |-> items[2][1]]

\* OrientedSegment.get_point_by_label, for a label the segment has
get_point_by_label(seg, label) ==
    IF seg.p1_label = label THEN seg.p1 ELSE seg.p2

LabelsOverlap(seg, expected) == {seg.p1_label, seg.p2_label} \cap expected # {}

\* OrientedSegment.assert_labels passes
LabelsAre(seg, expected) == {seg.p1_label, seg.p2_label} = expected

BaselinePortWholeWidth(anchor_point, starboard_vector) ==
    <<anchor_point[1] - starboard_vector[1], anchor_point[2] - starboard_vector[2]>>

\* Beam._calculate_vertices, lines 81-84 (starboard_vector has even
\* components on the inputs, so the half is exact)
BaselinePort(anchor_point, starboard_vector) ==
    <<anchor_point[1] - starboard_vector[1] \div 2, anchor_point[2] - starboard_vector[2] \div 2>>

BaselineStarboard(anchor_point, starboard_vector) ==
    <<anchor_point[1] + starboard_vector[1] \div 2, anchor_point[2] + starboard_vector[2] \div 2>>

CloserExtentFirstOnTie(dist_0, dist_1) == IF dist_0 <= dist_1 THEN 0 ELSE 1

CloserExtentFarther(dist_0, dist_1) == IF dist_0 > dist_1 THEN 0 ELSE 1

\* lines 116-117: 0 if dist_0 < dist_1 else 1 (squared distances compared)
CloserExtent(dist_0, dist_1) == IF dist_0 < dist_1 THEN 0 ELSE 1

\* Beam._calculate_vertices: the polygon as a sequence of rational points
CalculateVertices(extent_segments, anchor_point, starboard_vector) ==
    LET baseline_port == BaselinePort(anchor_point, starboard_vector)
        baseline_starboard == BaselineStarboard(anchor_point, starboard_vector)
    IN  IF Len(extent_segments) = 1
        THEN <<RPoint(baseline_port),
               RPoint(baseline_starboard),
               RPoint(get_point_by_label(extent_segments[1], "starboard")),
               RPoint(get_point_by_label(extent_segments[1], "port"))>>
        ELSE
          LET extent0 == extent_segments[1]
              extent1 == extent_segments[2]
              port_dist_0 == distance2(baseline_port, get_point_by_label(extent0, "port"))
              port_dist_1 == distance2(baseline_port, get_point_by_label(extent1, "port"))
              starboard_dist_0 ==
                  distance2(baseline_starboard, get_point_by_label(extent0, "starboard"))
              starboard_dist_1 ==
                  distance2(baseline_starboard, get_point_by_label(extent1, "starboard"))
              closer_port_extent == CloserExtent(port_dist_0, port_dist_1)
              closer_starboard_extent == CloserExtent(starboard_dist_0, starboard_dist_1)
          IN  IF closer_port_extent = closer_starboard_extent
              THEN <<RPoint(baseline_port),
                     RPoint(baseline_starboard),
                     RPoint(get_point_by_label(extent_segments[closer_port_extent + 1],
                                               "starboard")),
                     RPoint(get_point_by_label(extent_segments[closer_port_extent + 1],
                                               "port"))>>
              ELSE
                LET port_nearest ==
                        get_point_by_label(extent_segments[closer_port_extent + 1], "port")
                    starboard_nearest ==
                        get_point_by_label(extent_segments[closer_starboard_extent + 1],
                                           "starboard")
                    found == Intersection(extent0, extent1, FALSE, 1)
                    p0 == get_point_by_label(extent0, "port")
                    p1 == get_point_by_label(extent1, "port")
                    extent1_extent2_intersection ==
                        IF found.some
                        THEN found.pt
                        ELSE RP(p0[1] + p1[1], p0[2] + p1[2], 2)
                IN  <<RPoint(baseline_port),
                      RPoint(baseline_starboard),
                      RPoint(starboard_nearest),
                      extent1_extent2_intersection,
                      RPoint(port_nearest)>>

\* the parameters of Beam.__init__, none of which has a default
BeamParameters ==
    {"extent_segments", "beam_index", "edge_index", "anchor_point",
     "starboard_vector", "parity", "face_index", "facet_index"}

ExtentCountSupportedOnlyOne(n) == n = 1

\* Beam.__init__ line 44: len(extent_segments) in (1, 2)
ExtentCountSupported(n) == n \in {1, 2}

\* Beam(**kwargs): Python binds the arguments first (TypeError when a
\* parameter is missing), then runs __init__ (lines 43-74).  The result is
\* [raised |-> "none", obj |-> the Beam] or [raised |-> the exception, ...]
\* with no obj.
BeamInit(kwargs) ==
    IF ~(BeamParameters \subseteq DOMAIN kwargs)
    THEN [raised |-> "TypeError", missing |-> BeamParameters \ DOMAIN kwargs]
    ELSE IF ~ExtentCountSupported(Len(kwargs.extent_segments))
    THEN [raised |-> "NotImplementedError",
          message |-> "Currently only 1 or 2 extents supported, got "
                      \o ToString(Len(kwargs.extent_segments)) \o " extents"]
    ELSE IF \E i \in 1..Len(kwargs.extent_segments) :
                ~LabelsAre(kwargs.extent_segments[i], {"port", "starboard"})
    THEN [raised |-> "AssertionError"]
    ELSE [raised |-> "none",
          obj |-> [beam_index |-> kwargs.beam_index,
                   edge_index |-> kwargs.edge_index,
                   parity |-> kwargs.parity,
                   face_index |-> kwargs.face_index,
                   facet_index |-> kwargs.facet_index,
                   anchor_point |-> kwargs.anchor_point,
                   starboard_vector |-> kwargs.starboard_vector,
                   beam_id |-> <<kwargs.face_index, kwargs.facet_index,
                                 kwargs.edge_index, kwargs.beam_index>>,
                   forward_vector |->
                       perpendicular_counterclockwise(kwargs.starboard_vector),
                   vertices |-> CalculateVertices(kwargs.extent_segments,
                                                  kwargs.anchor_point,
                                                  kwargs.starboard_vector)]]

\* anchor_point + (k / 2) * forward_vector, as a rational point
ForwardOfAnchor(self, k) ==
    RP(2 * self.anchor_point[1] + k * self.forward_vector[1],
       2 * self.anchor_point[2] + k * self.forward_vector[2], 2)

\* Beam.get_basis_point: anchor_point + 0.5 * forward_vector
get_basis_point(self) == ForwardOfAnchor(self, 1)

TestPointAtOneWidth(self) == ForwardOfAnchor(self, 2)

\* Beam.generate_samples, line 196: anchor_point + 2.0 * forward_vector
TestPoint(self) == ForwardOfAnchor(self, 4)

\* Beam.generate_samples: the sample at 0.5 forward, then the sample at 1.5
\* forward when the test point is inside the beam's polygon
generate_samples(self) ==
    LET samples == <<ForwardOfAnchor(self, 1)>>
    IN  IF is_inside(self.vertices, TestPoint(self))
        THEN Append(samples, ForwardOfAnchor(self, 3))
        ELSE samples

---------------------------------------------------------------------------
(* Facet (src/luminary/geometry/facet.py)                                  *)
(*                                                                         *)
(* _generate_beams shoots, per edge, two rays perpendicular to the edge    *)
(* and intersects them with the axis (a Segment) and with the bisector of  *)
(* a lateral angle (a Ray).  Directions are kept up to a positive factor   *)
(* (perp(edge_vector) for forward_unit), and lengths are scaled by         *)
(* beam_count, which changes no sign and no ratio.  A bisector direction   *)
(* unit(d1) + unit(d2) is kept as the pair d1, d2; the sign of a cross     *)
(* product with it is decided exactly.  The quantities compared against    *)
(* the 1e-10 tolerance are algebraic numbers of small height on the input  *)
(* grid: they are 0 or far larger than the tolerance.                      *)

\* the sign of A / sqrt(m) + B / sqrt(n), for m, n > 0
SignSum(A, m, B, n) ==
    IF (A >= 0 /\ B >= 0) \/ (A <= 0 /\ B <= 0)
    THEN Sgn(A + B)
    ELSE IF A * A * n > B * B * m THEN Sgn(A)
    ELSE IF A * A * n < B * B * m THEN Sgn(B)
    ELSE 0

\* Angle(apex, point1, point2).bisector(): origin and direction of the Ray
AngleBisector(apex, point1, point2) ==
    LET vec1 == PointSub(point1, apex)
        vec2 == PointSub(point2, apex)
    IN  IF length2(vec1) = 0 \/ length2(vec2) = 0
        THEN [origin |-> apex, form |-> "vector", v |-> <<1, 0>>]
        ELSE IF cross_product(vec1, vec2) = 0 /\ dot_product(vec1, vec2) < 0
        THEN [origin |-> apex, form |-> "vector",
              v |-> perpendicular_counterclockwise(vec1)]
        ELSE [origin |-> apex, form |-> "sum", d1 |-> vec1, d2 |-> vec2]

\* the sign of w.cross_product(direction of the bisector b)
SgnCrossBisector(w, b) ==
    IF b.form = "vector"
    THEN Sgn(cross_product(w, b.v))
    ELSE SignSum(cross_product(w, b.d1), length2(b.d1),
                 cross_product(w, b.d2), length2(b.d2))

\* Facet._get_axis_of_symmetry
GetAxisOfSymmetry(fv) == [kind |-> "Segment", p1 |-> fv[1], p2 |-> fv[3]]

\* Facet._get_edge_points; vertex_port is vertices[1], vertex_starboard is
\* vertices[3]
GetEdgePoints(fv, edge_idx) ==
    CASE edge_idx = 0 -> [kind |-> "Segment", p1 |-> fv[1], p2 |-> fv[2]]
      [] edge_idx = 1 -> [kind |-> "Segment", p1 |-> fv[2], p2 |-> fv[3]]
      [] edge_idx = 2 -> [kind |-> "Segment", p1 |-> fv[3], p2 |-> fv[4]]
      [] edge_idx = 3 -> [kind |-> "Segment", p1 |-> fv[4], p2 |-> fv[1]]

\* Facet._get_edge_vector_counterclockwise
GetEdgeVectorCounterclockwise(fv, edge_idx) ==
    CASE edge_idx = 0 -> PointSub(fv[2], fv[1])
      [] edge_idx = 1 -> PointSub(fv[3], fv[2])
      [] edge_idx = 2 -> PointSub(fv[4], fv[3])
      [] edge_idx = 3 -> PointSub(fv[1], fv[4])

CloseBisectorRayCrossed(fv, edge_idx) ==
    LET port_bisector == AngleBisector(fv[4], fv[1], fv[3])
        starboard_bisector == AngleBisector(fv[2], fv[3], fv[1])
    IN  IF edge_idx \in {0, 1} THEN port_bisector ELSE starboard_bisector

\* _generate_beams lines 200-222: close_bisector_ray[edge_idx]
CloseBisectorRay(fv, edge_idx) ==
    LET port_bisector == AngleBisector(fv[4], fv[1], fv[3])
        starboard_bisector == AngleBisector(fv[2], fv[3], fv[1])
    IN  IF edge_idx \in {0, 1} THEN starboard_bisector ELSE port_bisector

\* ray.intersection(axis) is not None (Ray.intersection with a Segment,
\* bounds checked: line 269 passes no ignore_bounds).  The ray starts at
\* start / scale and points along forward.
RayMeetsAxis(start, scale, forward, axis) ==
    LET vec2 == PointSub(axis.p2, axis.p1)
        denom == cross_product(forward, vec2)
        vec3 == PointSub(VecScale(axis.p1, scale), start)
    IN  /\ denom # 0
        /\ Sgn(cross_product(vec3, vec2)) * Sgn(denom) >= 0
        /\ GeNegTol(cross_product(vec3, forward), scale * denom)
        /\ LeOnePlusTol(cross_product(vec3, forward), scale * denom)

\* ray.intersection(bisector) is not None (Ray.intersection with a Ray,
\* bounds checked: line 273 passes no ignore_bounds)
RayMeetsBisector(start, scale, forward, b) ==
    LET sd == SgnCrossBisector(forward, b)
        vec3 == PointSub(VecScale(b.origin, scale), start)
    IN  /\ sd # 0
        /\ SgnCrossBisector(vec3, b) * sd >= 0
        /\ Sgn(cross_product(vec3, forward)) * sd >= 0

\* lines 334-357: the keyword arguments of the Beam call.  The extent points
\* are first_beamport_<on> + stride * <on>_stride_vector; the anchor and the
\* starboard vector are named by the edge and the fraction along it.
FacetBeamKwargs(edge_idx, beam_count, beam_idx, global_beam_parity) ==
    [extent_segments |->
        <<OrientedSegment(<<<<"port", [on |-> "axis", stride |-> beam_idx]>>,
                            <<"starboard", [on |-> "axis", stride |-> beam_idx + 1]>>>>),
          OrientedSegment(<<<<"port", [on |-> "bisector", stride |-> beam_idx]>>,
                            <<"starboard", [on |-> "bisector", stride |-> beam_idx + 1]>>>>)>>,
     beam_index |-> beam_idx,
     edge_index |-> edge_idx,
     anchor_point |-> [edge |-> edge_idx, num |-> 2 * beam_idx + 1, den |-> 2 * beam_count],
     starboard_vector |-> [edge |-> edge_idx, num |-> 1, den |-> beam_count],
     parity |-> global_beam_parity]

RECURSIVE BeamLoop(_, _, _, _, _)

\* lines 350-362: what follows the Beam call of one iteration, made being
\* its outcome: the exception leaves the loop, or the beam is appended, the
\* parity flipped and the loop continued
BeamLoopAfterCall(made, edge_idx, beam_count, beam_idx, edge_beams, global_beam_parity) ==
    IF made.raised # "none"
    THEN [raised |-> made.raised, edge_beams |-> edge_beams,
          global_beam_parity |-> global_beam_parity]
    ELSE BeamLoop(edge_idx, beam_count, beam_idx + 1,
                  Append(edge_beams, made.obj), 1 - global_beam_parity)

\* lines 301-362: for beam_idx in range(beam_count), from beam_idx on
BeamLoop(edge_idx, beam_count, beam_idx, edge_beams, global_beam_parity) ==
    IF beam_idx >= beam_count
    THEN [raised |-> "none", edge_beams |-> edge_beams,
          global_beam_parity |-> global_beam_parity]
    ELSE BeamLoopAfterCall(BeamInit(FacetBeamKwargs(edge_idx, beam_count, beam_idx,
                                                    global_beam_parity)),
                           edge_idx, beam_count, beam_idx, edge_beams, global_beam_parity)

\* line 364: all_beams.append(edge_beams), reached when the beam loop
\* raised nothing
EdgeOfLoop(looped) ==
    [raised |-> looped.raised, appended |-> looped.raised = "none",
     edge_beams |-> looped.edge_beams,
     global_beam_parity |-> looped.global_beam_parity]

\* lines 229-364: one iteration of the loop over the edges.  appended tells
\* whether the iteration appended a list to all_beams.
GenerateEdge(fv, beam_counts, edge_idx, global_beam_parity) ==
    LET beam_count == beam_counts[edge_idx + 1]
        edge_segment == GetEdgePoints(fv, edge_idx)
        edge_vector == GetEdgeVectorCounterclockwise(fv, edge_idx)
        edge_start == edge_segment.p1
        forward == perpendicular_counterclockwise(edge_vector)
        first_baseline_start == VecScale(edge_start, beam_count)
        first_baseline_end == PointAdd(VecScale(edge_start, beam_count), edge_vector)
        axis == GetAxisOfSymmetry(fv)
        bisector == CloseBisectorRay(fv, edge_idx)
        skip == [raised |-> "none", appended |-> FALSE, edge_beams |-> <<>>,
                 global_beam_parity |-> global_beam_parity]
    IN  IF distance2(edge_segment.p1, edge_segment.p2) = 0
        THEN skip
        ELSE IF beam_count = 0
        THEN [skip EXCEPT !.raised = "ZeroDivisionError"]
        ELSE IF \/ ~RayMeetsAxis(first_baseline_start, beam_count, forward, axis)
                \/ ~RayMeetsAxis(first_baseline_end, beam_count, forward, axis)
                \/ ~RayMeetsBisector(first_baseline_start, beam_count, forward, bisector)
                \/ ~RayMeetsBisector(first_baseline_end, beam_count, forward, bisector)
        THEN [skip EXCEPT !.appended = TRUE]
        ELSE EdgeOfLoop(BeamLoop(edge_idx, beam_count, 0, <<>>, global_beam_parity))

RECURSIVE GenerateBeamsFrom(_, _, _, _, _)

\* what follows one iteration of the loop over the edges, edge being its
\* outcome: the exception leaves _generate_beams, or the loop continues
GenerateBeamsAfterEdge(edge, fv, beam_counts, edge_idx, all_beams) ==
    IF edge.raised # "none"
    THEN [raised |-> edge.raised]
    ELSE GenerateBeamsFrom(fv, beam_counts, edge_idx + 1,
                           IF edge.appended
                           THEN Append(all_beams, edge.edge_beams)
                           ELSE all_beams,
                           edge.global_beam_parity)

\* lines 228-366: the loop over the edges from edge_idx on, then
\* tuple(all_beams)
GenerateBeamsFrom(fv, beam_counts, edge_idx, all_beams, global_beam_parity) ==
    IF edge_idx >= Len(beam_counts)
    THEN [raised |-> "none", beams |-> all_beams]
    ELSE GenerateBeamsAfterEdge(GenerateEdge(fv, beam_counts, edge_idx, global_beam_parity),
                                fv, beam_counts, edge_idx, all_beams)

\* Facet._generate_beams
GenerateBeams(fv, beam_counts) == GenerateBeamsFrom(fv, beam_counts, 0, <<>>, 0)

\* Facet.__init__ line 61: self.beams = the tuple _generate_beams returned,
\* or its exception leaves the constructor
FacetOfBeams(fv, label, generated) ==
    IF generated.raised # "none"
    THEN [raised |-> generated.raised]
    ELSE [raised |-> "none",
          obj |-> [vertices |-> fv, label |-> label, beams |-> generated.beams]]

\* Facet(vertex, midpoint1, incenter, midpoint2, color, label, beam_counts):
\* [raised |-> "none", obj |-> the Facet] or [raised |-> the exception]
FacetInit(vertex, midpoint1, incenter, midpoint2, label, beam_counts) ==
    FacetOfBeams(<<vertex, midpoint1, incenter, midpoint2>>, label,
                 GenerateBeams(<<vertex, midpoint1, incenter, midpoint2>>, beam_counts))

---------------------------------------------------------------------------
(* Triangle construction as a sequence of steps *)

\* f"{self.triangle_id}{labels[label_idx]}"
FacetLabel(triangle_id, label) == ToString(triangle_id) \o label

\* Triangle.__init__ lines 43-55 and _create_facets lines 187-204, up to the
\* loop over ordered_vertices
TriangleBegin(p1, p2, p3, triangle_id, apex, beam_counts) ==
    LET vertices == <<p1, p2, p3>>
        incenter == CalculateIncenter(vertices)
        orientation == DetermineOrientation(vertices, incenter, apex)
    IN  [pc |-> "create_facets",
         vertices |-> vertices,
         triangle_id |-> triangle_id,
         apex |-> apex,
         beam_counts |-> beam_counts,
         incenter |-> incenter,
         edge_midpoints |-> EdgeMidpoints(vertices),
         orientation |-> orientation,
         ordered_vertices |->
             GetCounterclockwiseOrder(vertices, StartVertexIdx(vertices, apex, orientation)),
         labels |-> GetFacetLabels(orientation),
         label_idx |-> 0,
         facets |-> <<>>,
         raised |-> "none"]

\* _create_facets line 219: facets.append(Facet(...)), made being the
\* outcome of the Facet call; its exception leaves Triangle.__init__
AppendFacet(t, made) ==
    IF made.raised # "none"
    THEN [t EXCEPT !.pc = "raised", !.raised = made.raised]
    ELSE [t EXCEPT !.facets = Append(@, made.obj), !.label_idx = @ + 1]

\* _create_facets lines 206-230: one iteration of the loop
CreateFacetStep(t) ==
    LET vertex_idx == t.ordered_vertices[t.label_idx + 1]
        fv == FacetVertices(t.vertices, t.edge_midpoints, t.incenter, vertex_idx)
    IN  AppendFacet(t, FacetInit(fv[1], fv[2], fv[3], fv[4],
                                 FacetLabel(t.triangle_id, t.labels[t.label_idx + 1]),
                                 t.beam_counts))

\* the rest of Triangle.__init__ from a frame t on
RECURSIVE CreateFacetsRun(_)
CreateFacetsRun(t) ==
    IF t.pc # "create_facets" THEN t
    ELSE IF t.label_idx < Len(t.ordered_vertices) THEN CreateFacetsRun(CreateFacetStep(t))
    ELSE [t EXCEPT !.pc = "done"]

\* Triangle(p1, p2, p3, triangle_id, apex, beam_counts), whole
TriangleNew(p1, p2, p3, triangle_id, apex, beam_counts) ==
    CreateFacetsRun(TriangleBegin(p1, p2, p3, triangle_id, apex, beam_counts))

\* Inputs.  Triangles with integral side lengths, incenter and midpoints,
\* in every vertex order (both windings): a 6-8-10 right triangle, a
\* 10-10-12 isosceles triangle, three collinear points, two coincident
\* points, three coincident points.
BaseTriangles ==
    { <<<<0, 0>>, <<8, 0>>, <<0, 6>>>>,
      <<<<0, 0>>, <<12, 0>>, <<6, 8>>>>,
      <<<<0, 0>>, <<4, 0>>, <<8, 0>>>>,
      <<<<0, 0>>, <<0, 0>>, <<8, 0>>>>,
      <<<<4, 4>>, <<4, 4>>, <<4, 4>>>> }

Permutations3 ==
    { <<1, 2, 3>>, <<1, 3, 2>>, <<2, 1, 3>>, <<2, 3, 1>>, <<3, 1, 2>>, <<3, 2, 1>> }

InputTriangles ==
    { <<b[p[1]], b[p[2]], b[p[3]]>> : b \in BaseTriangles, p \in Permutations3 }

ApexMax == 12

\* apex coordinates: the even numbers from -2 to ApexMax
ApexCoordinates == { c \in (0 - 2)..ApexMax : c % 2 = 0 }

InputApexes == { <<x, y>> : x \in ApexCoordinates, y \in ApexCoordinates }

InputBeamCounts == { <<7, 4, 4, 7>>, <<1, 1, 1, 1>>, <<2, 0, 1, 3>> }

InputTriangleIds == { 7, 12 }

InitTriangle ==
    /\ tri \in { [pc |-> "new", vertices |-> vs, triangle_id |-> id,
                  apex |-> a, beam_counts |-> bc] :
                 vs \in InputTriangles, id \in InputTriangleIds,
                 a \in InputApexes, bc \in InputBeamCounts }
    /\ beam = Idle
    /\ lin = Idle
    /\ net = Idle
    /\ prim = Idle
    /\ srv = Idle

\* Triangle.__init__ is entered and runs up to the facet loop
TriangleInit ==
    /\ tri.pc = "new"
    /\ tri' = TriangleBegin(tri.vertices[1], tri.vertices[2], tri.vertices[3],
                            tri.triangle_id, tri.apex, tri.beam_counts)
    /\ UNCHANGED <<beam, lin, net, prim, srv>>

\* one Facet is constructed and appended, or its constructor raises
CreateFacet ==
    /\ tri.pc = "create_facets"
    /\ tri.label_idx < Len(tri.ordered_vertices)
    /\ tri' = CreateFacetStep(tri)
    /\ UNCHANGED <<beam, lin, net, prim, srv>>

\* _create_facets returns and the Triangle is constructed
CreateFacetsReturn ==
    /\ tri.pc = "create_facets"
    /\ tri.label_idx = Len(tri.ordered_vertices)
    /\ tri' = [tri EXCEPT !.pc = "done"]
    /\ UNCHANGED <<beam, lin, net, prim, srv>>

Next == TriangleInit \/ CreateFacet \/ CreateFacetsReturn

Spec == InitTriangle /\ [][Next]_vars

---------------------------------------------------------------------------
(* Properties of Triangle and Facet construction (checked under Spec) *)

\* the Triangle has been constructed
TriangleDone == tri.pc = "done"

\* the three input vertices are not collinear
NonDegenerate ==
    cross_product(PointSub(tri.vertices[2], tri.vertices[1]),
                  PointSub(tri.vertices[3], tri.vertices[1])) # 0

\* the indices of the vertices strictly closer to the apex than the incenter
StrictlyCloser ==
    { i \in 1..3 : distance2(tri.vertices[i], tri.apex) < distance2(tri.incenter, tri.apex) }

\* the indices of the vertices at exactly the incenter's distance from the apex
AtIncenterDistance ==
    { i \in 1..3 : distance2(tri.vertices[i], tri.apex) = distance2(tri.incenter, tri.apex) }

\* C2: every Beam call made by a Facet's beam generation succeeds: no
\* Triangle construction is aborted by an exception of the Beam constructor.
C2_BeamCallsSucceed ==
    tri.pc = "raised" => tri.raised \notin {"TypeError", "NotImplementedError", "AssertionError"}

\* C3: in every Facet of a constructed Triangle, every edge of non-zero
\* length carries exactly the requested number of Beams.
C3_BeamCountPerEdge ==
    TriangleDone =>
        \A k \in 1..Len(tri.facets) : \A e \in 0..3 :
            LET edge_segment == GetEdgePoints(tri.facets[k].vertices, e)
            IN  distance2(edge_segment.p1, edge_segment.p2) # 0 =>
                    /\ e + 1 <= Len(tri.facets[k].beams)
                    /\ Len(tri.facets[k].beams[e + 1]) = tri.beam_counts[e + 1]

\* C4: in every Facet of a constructed Triangle, facet.beams holds exactly 4
\* lists, and a beam at position j of list e has edge_index e and
\* beam_index j.
C4_FourBeamLists ==
    TriangleDone =>
        \A k \in 1..Len(tri.facets) :
            /\ Len(tri.facets[k].beams) = 4
            /\ \A e \in 1..Len(tri.facets[k].beams) :
                   \A j \in 1..Len(tri.facets[k].beams[e]) :
                       /\ tri.facets[k].beams[e][j].edge_index = e - 1
                       /\ tri.facets[k].beams[e][j].beam_index = j - 1

\* C6: the orientation is APEXWARD exactly when one vertex is strictly
\* closer to the apex than the incenter is; with 0, 2 or 3 strictly closer
\* vertices (vertices at the incenter's distance are not closer) it is
\* NADIRWARD.
C6_OrientationIffOneCloser ==
    tri.pc # "new" =>
        /\ tri.orientation = "APEXWARD" <=> Cardinality(StrictlyCloser) = 1
        /\ Cardinality(StrictlyCloser) \in {0, 2, 3} => tri.orientation = "NADIRWARD"

\* a triangle with no vertex strictly closer and one vertex at exactly the
\* incenter's distance has been classified
C6_Witness ==
    /\ tri.pc # "new"
    /\ NonDegenerate
    /\ Cardinality(StrictlyCloser) = 0
    /\ Cardinality(AtIncenterDistance) = 1
    /\ tri.orientation = "NADIRWARD"

\* C7: in a constructed Triangle the primary vertex of facets[0] is a vertex
\* nearest to the apex (APEXWARD) or farthest from it (NADIRWARD), and the
\* labels in list order are <id>A, <id>B, <id>C (APEXWARD) or <id>D, <id>E,
\* <id>F (NADIRWARD).
C7_FirstFacetAndLabels ==
    TriangleDone =>
        LET P0 == tri.facets[1].vertices[1]
            letters == IF tri.orientation = "APEXWARD"
                       THEN <<"A", "B", "C">>
                       ELSE <<"D", "E", "F">>
        IN  /\ Len(tri.facets) = 3
            /\ \E i \in 1..3 : P0 = tri.vertices[i]
            /\ tri.orientation = "APEXWARD" =>
                   \A i \in 1..3 : distance2(P0, tri.apex) <= distance2(tri.vertices[i], tri.apex)
            /\ tri.orientation = "NADIRWARD" =>
                   \A i \in 1..3 : distance2(P0, tri.apex) >= distance2(tri.vertices[i], tri.apex)
            /\ \A k \in 1..3 : tri.facets[k].label = ToString(tri.triangle_id) \o letters[k]

\* a non-degenerate NADIRWARD triangle whose vertices are at three different
\* distances from the apex has been constructed with its three facets
C7_Witness ==
    /\ TriangleDone
    /\ NonDegenerate
    /\ tri.orientation = "NADIRWARD"
    /\ Len(tri.facets) = 3
    /\ tri.facets[1].label = "12D"
    /\ \A i, j \in 1..3 :
           i # j => distance2(tri.vertices[i], tri.apex) # distance2(tri.vertices[j], tri.apex)

\* C8: in a constructed non-degenerate Triangle the facet primaries P0, P1,
\* P2 are counterclockwise: cross(P1 - P0, P2 - P0) > 0.
C8_PrimariesCounterclockwise ==
    (TriangleDone /\ NonDegenerate) =>
        LET P0 == tri.facets[1].vertices[1]
            P1 == tri.facets[2].vertices[1]
            P2 == tri.facets[3].vertices[1]
        IN  cross_product(PointSub(P1, P0), PointSub(P2, P0)) > 0

---------------------------------------------------------------------------
(* Direct calls of the Beam constructor *)

\* Inputs: a baseline from (-2, 0) to (2, 0) or from (-2, 2) to (2, 2), and
\* extents from a port point on the left to a starboard point on the right,
\* given as dicts in either key order; one extent carries a foreign label.
ExtentPortPoints == { <<-4, 2>>, <<-4, 4>>, <<-2, 2>>, <<-2, 4>> }

ExtentStarboardPoints == { <<2, 2>>, <<2, 4>>, <<4, 2>>, <<4, 4>> }

LabelledExtents ==
    { OrientedSegment(<<<<"port", p>>, <<"starboard", q>>>>) :
          p \in ExtentPortPoints, q \in ExtentStarboardPoints }
    \cup
    { OrientedSegment(<<<<"starboard", q>>, <<"port", p>>>>) :
          p \in ExtentPortPoints, q \in ExtentStarboardPoints }

MislabelledExtent == OrientedSegment(<<<<"port", <<-2, 2>>>>, <<"bow", <<2, 2>>>>>>)

FewExtents ==
    { OrientedSegment(<<<<"port", <<-2, 2>>>>, <<"starboard", <<2, 2>>>>>>),
      OrientedSegment(<<<<"port", <<-4, 4>>>>, <<"starboard", <<2, 4>>>>>>),
      MislabelledExtent }

InputExtentLists ==
    { <<>> }
    \cup { <<e>> : e \in LabelledExtents \cup {MislabelledExtent} }
    \cup { <<e0, e1>> : e0 \in LabelledExtents, e1 \in LabelledExtents }
    \cup { <<e0, MislabelledExtent>> : e0 \in FewExtents }
    \cup { <<e0, e1, e2>> : e0 \in FewExtents, e1 \in FewExtents, e2 \in FewExtents }
    \cup { <<e0, e1, e0, e1>> : e0 \in FewExtents, e1 \in FewExtents }

InputAnchors == { <<0, 0>>, <<0, 2>>, <<0, -2>> }

\* one beam width along the baseline
InputStarboardVectors == { <<4, 0>>, <<2, 0>> }

\* The call of test_beam_vertices_calculation: anchor (2.5, 0),
\* starboard_vector (5, 0), one extent from port (0, 10) to starboard
\* (5, 10), written on a grid whose unit is 1/2 of the program's unit.
HalfUnitCall ==
    [extent_segments |->
         <<OrientedSegment(<<<<"port", <<0, 20>>>>, <<"starboard", <<10, 20>>>>>>)>>,
     beam_index |-> 0,
     edge_index |-> 0,
     anchor_point |-> <<5, 0>>,
     starboard_vector |-> <<10, 0>>,
     parity |-> 0,
     face_index |-> 0,
     facet_index |-> 0]

\* beam.unitDen: the coordinates of the call are in units of 1/unitDen
InitBeam ==
    /\ beam \in { [pc |-> "call",
                   unitDen |-> 1,
                   kwargs |-> [extent_segments |-> es,
                               beam_index |-> 1,
                               edge_index |-> 3,
                               anchor_point |-> a,
                               starboard_vector |-> sv,
                               parity |-> 1,
                               face_index |-> 12,
                               facet_index |-> 2]] :
                  es \in InputExtentLists, a \in InputAnchors,
                  sv \in InputStarboardVectors }
               \cup { [pc |-> "call", unitDen |-> 2, kwargs |-> HalfUnitCall] }
    /\ tri = Idle
    /\ lin = Idle
    /\ net = Idle
    /\ prim = Idle
    /\ srv = Idle

\* Beam(**kwargs) returns a Beam or raises
BeamCall ==
    /\ beam.pc = "call"
    /\ beam' = [pc |-> "returned", unitDen |-> beam.unitDen, kwargs |-> beam.kwargs,
                result |-> BeamInit(beam.kwargs),
                basis_point |-> None, samples |-> None]
    /\ UNCHANGED <<tri, lin, net, prim, srv>>

\* beam.get_basis_point() on the constructed Beam
GetBasisPoint ==
    /\ beam.pc = "returned"
    /\ beam.result.raised = "none"
    /\ beam.basis_point = None
    /\ beam' = [beam EXCEPT !.basis_point =
                                [some |-> TRUE, pt |-> get_basis_point(beam.result.obj)]]
    /\ UNCHANGED <<tri, lin, net, prim, srv>>

\* beam.generate_samples() on the constructed Beam
GenerateSamples ==
    /\ beam.pc = "returned"
    /\ beam.result.raised = "none"
    /\ beam.samples = None
    /\ beam' = [beam EXCEPT !.samples =
                                [some |-> TRUE, pts |-> generate_samples(beam.result.obj)]]
    /\ UNCHANGED <<tri, lin, net, prim, srv>>

NextBeam == BeamCall \/ GetBasisPoint \/ GenerateSamples

SpecBeam == InitBeam /\ [][NextBeam]_vars

---------------------------------------------------------------------------
(* Properties of the Beam constructor (checked under SpecBeam) *)

BeamReturned == beam.pc = "returned"

\* every extent of the call carries exactly the labels port and starboard
ExtentsLabelled ==
    \A i \in 1..Len(beam.kwargs.extent_segments) :
        {beam.kwargs.extent_segments[i].p1_label,
         beam.kwargs.extent_segments[i].p2_label} = {"port", "starboard"}

\* the call returned a Beam built from two extents
TwoExtentBeam ==
    /\ BeamReturned
    /\ Len(beam.kwargs.extent_segments) = 2
    /\ beam.result.raised = "none"

\* the endpoint of extent i (1 or 2) of the call that carries the label
ExtentPoint(i, label) ==
    IF beam.kwargs.extent_segments[i].p1_label = label
    THEN beam.kwargs.extent_segments[i].p1
    ELSE beam.kwargs.extent_segments[i].p2

\* the baseline corners anchor -/+ starboard_vector / 2, doubled
BaselinePort2 ==
    <<2 * beam.kwargs.anchor_point[1] - beam.kwargs.starboard_vector[1],
      2 * beam.kwargs.anchor_point[2] - beam.kwargs.starboard_vector[2]>>

BaselineStarboard2 ==
    <<2 * beam.kwargs.anchor_point[1] + beam.kwargs.starboard_vector[1],
      2 * beam.kwargs.anchor_point[2] + beam.kwargs.starboard_vector[2]>>

\* extent i is at least as near as the other extent to the doubled corner c2
\* on the side named by label
NearerOnSide(i, c2, label) ==
    distance2(c2, VecScale(ExtentPoint(i, label), 2))
        <= distance2(c2, VecScale(ExtentPoint(3 - i, label), 2))

\* the rational point X = <<xn, yn, d>> lies on the segment from a to b
OnSegment(X, a, b) ==
    LET w == <<X[1] - X[3] * a[1], X[2] - X[3] * a[2]>>
        dir == PointSub(b, a)
    IN  /\ cross_product(w, dir) = 0
        /\ dot_product(w, dir) >= 0
        /\ dot_product(w, dir) <= X[3] * length2(dir)

\* the two extents are not parallel and each has its endpoints on both
\* sides of (or on) the line of the other: they cross in one point
ExtentsCross ==
    LET a == beam.kwargs.extent_segments[1]
        b == beam.kwargs.extent_segments[2]
        da == PointSub(a.p2, a.p1)
        db == PointSub(b.p2, b.p1)
    IN  /\ cross_product(da, db) # 0
        /\ Sgn(cross_product(da, PointSub(b.p1, a.p1)))
               * Sgn(cross_product(da, PointSub(b.p2, a.p1))) <= 0
        /\ Sgn(cross_product(db, PointSub(a.p1, b.p1)))
               * Sgn(cross_product(db, PointSub(a.p2, b.p1))) <= 0

\* the polygon is the one of the selection (ps, ss) of extents for the port
\* and the starboard side, its fourth vertex satisfying Fourth when ps # ss
PolygonOfSelection(ps, ss, Fourth(_)) ==
    LET vs == beam.result.obj.vertices
    IN  /\ NearerOnSide(ps, BaselinePort2, "port")
        /\ NearerOnSide(ss, BaselineStarboard2, "starboard")
        /\ vs[1] = RP(BaselinePort2[1], BaselinePort2[2], 2)
        /\ vs[2] = RP(BaselineStarboard2[1], BaselineStarboard2[2], 2)
        /\ IF ps = ss
           THEN /\ Len(vs) = 4
                /\ vs[3] = RPoint(ExtentPoint(ps, "starboard"))
                /\ vs[4] = RPoint(ExtentPoint(ps, "port"))
           ELSE /\ Len(vs) = 5
                /\ vs[3] = RPoint(ExtentPoint(ss, "starboard"))
                /\ Fourth(vs[4])
                /\ vs[5] = RPoint(ExtentPoint(ps, "port"))

\* X is a common point of the two extents
OnBothExtents(X) ==
    /\ OnSegment(X, beam.kwargs.extent_segments[1].p1, beam.kwargs.extent_segments[1].p2)
    /\ OnSegment(X, beam.kwargs.extent_segments[2].p1, beam.kwargs.extent_segments[2].p2)

\* X is the crossing point of the two extents when they cross, and the
\* midpoint of their port endpoints when they do not
CrossingOrPortMidpoint(X) ==
    IF ExtentsCross
    THEN OnBothExtents(X)
    ELSE X = RP(ExtentPoint(1, "port")[1] + ExtentPoint(2, "port")[1],
                ExtentPoint(1, "port")[2] + ExtentPoint(2, "port")[2], 2)

---------------------------------------------------------------------------
(* Calls of intersection on Segment, Ray and Line *)

\* Inputs: elements through points with coordinates 0, 1, 2 (an element with
\* p1 = p2 included), at ordinary size (unitDen = 1) and shrunk so that the
\* grid unit is 1/150000: there a cross product of 1 or 2 grid units is
\* below 1e-10 and one of 3 or more is not.
GridCoordinates == {0, 1, 2}

GridPoints == { <<x, y>> : x \in GridCoordinates, y \in GridCoordinates }

ElementKinds == {"Segment", "Ray", "Line"}

InputUnitDens == {1, 3 * (TolRoot \div 2)}

InitIsect ==
    /\ lin \in { [pc |-> "call",
                  self |-> [kind |-> k1, p1 |-> a, p2 |-> b],
                  other |-> [kind |-> k2, p1 |-> c, p2 |-> d],
                  ignore_bounds |-> ib,
                  unitDen |-> u] :
                 k1 \in ElementKinds, k2 \in ElementKinds,
                 a \in {<<0, 0>>, <<1, 1>>}, b \in GridPoints,
                 c \in GridPoints, d \in GridPoints,
                 ib \in BOOLEAN, u \in InputUnitDens }
    /\ tri = Idle
    /\ beam = Idle
    /\ net = Idle
    /\ prim = Idle
    /\ srv = Idle

Returned(result) ==
    [pc |-> "returned", self |-> lin.self, other |-> lin.other,
     ignore_bounds |-> lin.ignore_bounds, unitDen |-> lin.unitDen, result |-> result]

\* Segment.intersection(other, ignore_bounds)
SegmentIntersection ==
    /\ lin.pc = "call"
    /\ lin.self.kind = "Segment"
    /\ lin' = Returned(Intersection(lin.self, lin.other, lin.ignore_bounds, lin.unitDen))
    /\ UNCHANGED <<tri, beam, net, prim, srv>>

\* Ray.intersection(other, ignore_bounds)
RayIntersection ==
    /\ lin.pc = "call"
    /\ lin.self.kind = "Ray"
    /\ lin' = Returned(Intersection(lin.self, lin.other, lin.ignore_bounds, lin.unitDen))
    /\ UNCHANGED <<tri, beam, net, prim, srv>>

\* Line.intersection(other, ignore_bounds)
LineIntersection ==
    /\ lin.pc = "call"
    /\ lin.self.kind = "Line"
    /\ lin' = Returned(Intersection(lin.self, lin.other, lin.ignore_bounds, lin.unitDen))
    /\ UNCHANGED <<tri, beam, net, prim, srv>>

NextIsect == SegmentIntersection \/ RayIntersection \/ LineIntersection

SpecIsect == InitIsect /\ [][NextIsect]_vars

---------------------------------------------------------------------------
(* Properties of intersection (checked under SpecIsect) *)

IsectReturned == lin.pc = "returned"

SelfDirection == PointSub(lin.self.p2, lin.self.p1)

OtherDirection == PointSub(lin.other.p2, lin.other.p1)

\* the direction vectors are not parallel: |cross| >= 1e-10
NotParallel == ~BelowTol(cross_product(SelfDirection, OtherDirection), lin.unitDen)

\* numerators over the denominator cross(SelfDirection, OtherDirection)
ParameterRange == -8..8

\* the numerator n1 of t1 and the numerator n2 of t2, found from what the
\* parameters are to satisfy: p1 + t1 * (p2 - p1) = other.p1 + t2 *
\* (other.p2 - other.p1), over the denominator D of non-parallel directions
SolvedParameters ==
    LET D == cross_product(SelfDirection, OtherDirection)
        between == PointSub(lin.other.p1, lin.self.p1)
        n1 == CHOOSE n \in ParameterRange :
                  cross_product(PointSub(VecScale(between, D), VecScale(SelfDirection, n)),
                                OtherDirection) = 0
        n2 == CHOOSE n \in ParameterRange :
                  VecScale(between, D)
                      = PointSub(VecScale(SelfDirection, n1), VecScale(OtherDirection, n))
    IN  [n1 |-> n1, n2 |-> n2, D |-> D]

\* the parameter n / d is in the valid range of an element of the kind
InValidRange(kind, n, d) ==
    \/ kind = "Line"
    \/ kind = "Ray" /\ GeNegTol(n, d)
    \/ kind = "Segment" /\ GeNegTol(n, d) /\ LeOnePlusTol(n, d)

\* the rational point X is on the line through a with direction dir
OnLine(X, a, dir) ==
    cross_product(<<X[1] - X[3] * a[1], X[2] - X[3] * a[2]>>, dir) = 0

\* C9: intersection returns a point exactly when the directions are not
\* parallel and either ignore_bounds is set or both solved parameters are
\* in the valid range of their element; the point is on both lines; in
\* every other case the result is None.
C9_IntersectionResult ==
    IsectReturned =>
        LET expected ==
                /\ NotParallel
                /\ \/ lin.ignore_bounds
                   \/ /\ InValidRange(lin.self.kind, SolvedParameters.n1, SolvedParameters.D)
                      /\ InValidRange(lin.other.kind, SolvedParameters.n2, SolvedParameters.D)
        IN  /\ lin.result.some <=> expected
            /\ ~lin.result.some => lin.result = None
            /\ lin.result.some =>
                   /\ OnLine(lin.result.pt, lin.self.p1, SelfDirection)
                   /\ OnLine(lin.result.pt, lin.other.p1, OtherDirection)

\* a bounded Ray call whose lines meet behind the ray's origin, on the
\* other element, has returned None
C9_Witness ==
    /\ IsectReturned
    /\ ~lin.ignore_bounds
    /\ lin.self.kind = "Ray"
    /\ lin.other.kind = "Segment"
    /\ NotParallel
    /\ ~InValidRange("Ray", SolvedParameters.n1, SolvedParameters.D)
    /\ InValidRange("Segment", SolvedParameters.n2, SolvedParameters.D)
    /\ lin.result = None

---------------------------------------------------------------------------
(* Net construction (src/luminary/geometry/net.py, config/schema.py) *)

\* NetConfiguration.get_triangle_id
get_triangle_id(series_idx, triangle_idx) == ((series_idx + 1) * 10) + triangle_idx

\* NetConfiguration.iter_triangles_with_ids, from series series_idx on: the
\* (triangle_id, triangle, series number) yielded, in order
RECURSIVE IterTrianglesWithIdsFrom(_, _)
IterTrianglesWithIdsFrom(triangles, series_idx) ==
    IF series_idx >= Len(triangles)
    THEN <<>>
    ELSE [triangle_idx1 \in 1..Len(triangles[series_idx + 1]) |->
              [triangle_id |-> get_triangle_id(series_idx, triangle_idx1 - 1),
               triangle |-> triangles[series_idx + 1][triangle_idx1],
               series_num |-> series_idx + 1]]
         \o IterTrianglesWithIdsFrom(triangles, series_idx + 1)

iter_triangles_with_ids(triangles) == IterTrianglesWithIdsFrom(triangles, 0)

\* Inputs: configurations the loader accepts (at least 3 points with
\* defined colours, at least 1 series, vertex indices within the points, 4
\* beam counts).  The triangles are the 6-8-10 triangle in both windings and
\* the 10-10-12 triangle; one configuration has a series of 11 triangles.
ConfigPoints == << <<0, 0>>, <<8, 0>>, <<0, 6>>, <<12, 0>>, <<6, 8>> >>

ConfigTriangleTuples == { <<0, 1, 2>>, <<0, 2, 1>>, <<0, 4, 3>> }

ConfigSeries ==
    { <<>> }
    \cup { <<t>> : t \in ConfigTriangleTuples }
    \cup { <<t, u>> : t \in ConfigTriangleTuples, u \in ConfigTriangleTuples }

LongSeries == [i \in 1..11 |-> <<0, 2, 1>>]

ConfigTriangles ==
    { <<s>> : s \in ConfigSeries }
    \cup { <<s, t>> : s \in ConfigSeries, t \in ConfigSeries }
    \cup { <<LongSeries, <<t>>>> : t \in ConfigTriangleTuples }

InitNet ==
    /\ net \in { [pc |-> "new",
                  config |-> [points |-> ConfigPoints,
                              triangles |-> ts,
                              apex |-> a,
                              default_beam_counts |-> bc]] :
                 ts \in ConfigTriangles,
                 a \in { <<0, 0>>, <<6, 12>> },
                 bc \in { <<7, 4, 4, 7>>, <<1, 1, 1, 1>> } }
    /\ tri = Idle
    /\ beam = Idle
    /\ lin = Idle
    /\ prim = Idle
    /\ srv = Idle

\* Net.__init__ lines 24-31 and the entry of _create_triangles
NetInit ==
    /\ net.pc = "new"
    /\ net' = [pc |-> "create_triangles",
               config |-> net.config,
               points |-> net.config.points,
               apex |-> net.config.apex,
               pending |-> iter_triangles_with_ids(net.config.triangles),
               triangles |-> <<>>,
               raised |-> "none"]
    /\ UNCHANGED <<tri, beam, lin, prim, srv>>

\* _create_triangles line 98: triangles.append(triangle), triangle being
\* the outcome of the Triangle call; its exception leaves Net.__init__
AppendTriangle(n, triangle) ==
    IF triangle.pc = "raised"
    THEN [n EXCEPT !.pc = "raised", !.raised = triangle.raised]
    ELSE [n EXCEPT !.triangles = Append(@, triangle), !.pending = Tail(@)]

\* _create_triangles lines 81-98: one iteration of the loop
NetCreateTriangle ==
    /\ net.pc = "create_triangles"
    /\ net.pending # <<>>
    /\ LET item == Head(net.pending)
           v1 == net.points[item.triangle[1] + 1]
           v2 == net.points[item.triangle[2] + 1]
           v3 == net.points[item.triangle[3] + 1]
       IN  net' = AppendTriangle(net, TriangleNew(v1, v2, v3, item.triangle_id, net.apex,
                                                  net.config.default_beam_counts))
    /\ UNCHANGED <<tri, beam, lin, prim, srv>>

\* _create_triangles returns and the Net is constructed
NetReturn ==
    /\ net.pc = "create_triangles"
    /\ net.pending = <<>>
    /\ net' = [net EXCEPT !.pc = "done"]
    /\ UNCHANGED <<tri, beam, lin, prim, srv>>

\* where the beams of the Net n are: (triangle, facet, edge list, position),
\* as the loops of create_beam_colors_dict enumerate them (1-based)
BeamPlacesOf(n) ==
    { <<t, f, e, j>> \in (1..Len(n.triangles)) \X (1..3) \X (1..4) \X (1..7) :
          /\ f <= Len(n.triangles[t].facets)
          /\ e <= Len(n.triangles[t].facets[f].beams)
          /\ j <= Len(n.triangles[t].facets[f].beams[e]) }

\* line 126: beam_id = (actual_face_idx, facet_idx, edge_idx, position_idx)
KeyOfPlace(n, place) ==
    <<n.triangles[place[1]].triangle_id, place[2] - 1, place[3] - 1, place[4] - 1>>

\* BeamArrayBuilder(net).create_beam_colors_dict(oklch_values), with a row
\* of oklch_values for every beam: the keys of the dict returned
create_beam_colors_dict(n) == { KeyOfPlace(n, place) : place \in BeamPlacesOf(n) }

\* the constructed Net is handed to BeamArrayBuilder for its colours
CreateBeamColorsDict ==
    /\ net.pc = "done"
    /\ net' = [net EXCEPT !.pc = "colored"] @@
              [beam_colors |-> create_beam_colors_dict(net)]
    /\ UNCHANGED <<tri, beam, lin, prim, srv>>

NextNet == NetInit \/ NetCreateTriangle \/ NetReturn \/ CreateBeamColorsDict

SpecNet == InitNet /\ [][NextNet]_vars

---------------------------------------------------------------------------
(* Properties of Net construction (checked under SpecNet) *)

\* where the beams of the Net are: (triangle, facet, edge list, position),
\* as BeamArrayBuilder.create_beam_colors_dict walks them
BeamPlaces ==
    { <<t, f, e, j>> \in (1..Len(net.triangles)) \X (1..3) \X (1..4) \X (1..7) :
          /\ f <= Len(net.triangles[t].facets)
          /\ e <= Len(net.triangles[t].facets[f].beams)
          /\ j <= Len(net.triangles[t].facets[f].beams[e]) }

\* the identity tuple (face, facet, edge, beam_index) of the beam at a place
IdentityAt(place) ==
    <<net.triangles[place[1]].triangle_id, place[2] - 1, place[3] - 1, place[4] - 1>>

---------------------------------------------------------------------------
(* The 5-vertex polygon of the Beam constructor (checked under SpecBeam) *)

\* the call returned a Beam whose two extents were selected on different
\* sides: the polygon has 5 vertices
FiveSidedBeam ==
    /\ TwoExtentBeam
    /\ Len(beam.result.obj.vertices) = 5

\* the lines through the two extents are parallel
ExtentLinesParallel ==
    cross_product(PointSub(beam.kwargs.extent_segments[1].p2,
                           beam.kwargs.extent_segments[1].p1),
                  PointSub(beam.kwargs.extent_segments[2].p2,
                           beam.kwargs.extent_segments[2].p1)) = 0

\* X is on the line through extent 1 and on the line through extent 2
OnBothExtentLines(X) ==
    /\ OnLine(X, beam.kwargs.extent_segments[1].p1,
              PointSub(beam.kwargs.extent_segments[1].p2, beam.kwargs.extent_segments[1].p1))
    /\ OnLine(X, beam.kwargs.extent_segments[2].p1,
              PointSub(beam.kwargs.extent_segments[2].p2, beam.kwargs.extent_segments[2].p1))

\* the midpoint of the two extents' port endpoints
PortMidpoint ==
    RP(ExtentPoint(1, "port")[1] + ExtentPoint(2, "port")[1],
       ExtentPoint(1, "port")[2] + ExtentPoint(2, "port")[2], 2)

\* C11: a call with two labelled extents never fails, and in the 5-vertex
\* polygon the fourth vertex is the point where the two extent lines meet;
\* it is the midpoint of the port endpoints only when the lines are parallel.
C11_FourthVertexOfLines ==
    /\ (BeamReturned /\ Len(beam.kwargs.extent_segments) = 2 /\ ExtentsLabelled)
           => beam.result.raised = "none"
    /\ FiveSidedBeam =>
           IF ExtentLinesParallel
           THEN beam.result.obj.vertices[4] = PortMidpoint
           ELSE OnBothExtentLines(beam.result.obj.vertices[4])

\* a 5-vertex Beam whose extent lines meet in one point, outside one of the
\* extents
C11_LinesMeetOutside ==
    /\ FiveSidedBeam
    /\ ~ExtentLinesParallel
    /\ ~ExtentsCross

---------------------------------------------------------------------------
(* The 4-vertex polygon of a single extent (checked under SpecBeam) *)

\* the call returned a Beam built from one extent
OneExtentBeam ==
    /\ BeamReturned
    /\ Len(beam.kwargs.extent_segments) = 1
    /\ beam.result.raised = "none"

\* the rational point X of the grid, in the program's unit
InProgramUnit(X) == RP(X[1], X[2], X[3] * beam.unitDen)

\* C12: with exactly 1 extent the vertices are anchor - starboard_vector/2,
\* anchor + starboard_vector/2, the extent's starboard point and the extent's
\* port point, in that order; anchor (2.5, 0), starboard_vector (5, 0) and
\* the extent from (0, 10) to (5, 10) give (0,0), (5,0), (5,10), (0,10).
C12_OneExtentVertices ==
    OneExtentBeam =>
        LET vs == beam.result.obj.vertices
        IN  /\ vs = <<RP(BaselinePort2[1], BaselinePort2[2], 2),
                      RP(BaselineStarboard2[1], BaselineStarboard2[2], 2),
                      RPoint(ExtentPoint(1, "starboard")),
                      RPoint(ExtentPoint(1, "port"))>>
            /\ (beam.unitDen = 2 /\ beam.kwargs = HalfUnitCall) =>
                   [i \in 1..4 |-> InProgramUnit(vs[i])]
                       = <<RPoint(<<0, 0>>), RPoint(<<5, 0>>),
                           RPoint(<<5, 10>>), RPoint(<<0, 10>>)>>

\* the call of the example has returned its Beam
C12_Witness ==
    /\ OneExtentBeam
    /\ beam.unitDen = 2
    /\ beam.kwargs = HalfUnitCall
    /\ InProgramUnit(RPoint(beam.kwargs.anchor_point)) = RP(5, 0, 2)

\* a second 1-extent Beam, its extent given starboard first
C12_WitnessStarboardFirst ==
    /\ OneExtentBeam
    /\ beam.kwargs.extent_segments[1].p1_label = "starboard"
    /\ beam.result.obj.vertices[3] = RPoint(beam.kwargs.extent_segments[1].p1)

---------------------------------------------------------------------------
(* The even-odd rule, stated on its own *)

\* the rational points A, B, P as integer pairs over their common denominator
OverCommonDenominator(P, A, B) ==
    [P |-> <<P[1] * A[3] * B[3], P[2] * A[3] * B[3]>>,
     A |-> <<A[1] * P[3] * B[3], A[2] * P[3] * B[3]>>,
     B |-> <<B[1] * P[3] * A[3], B[2] * P[3] * A[3]>>]

\* the ray from P in the +x direction crosses the edge between A and B:
\* exactly one end of the edge is strictly above the ray's line, and P is
\* strictly to the left of the edge directed from its lower to its upper end
RayCrossesEdge(P, A, B) ==
    LET c == OverCommonDenominator(P, A, B)
        upper == IF c.A[2] > c.P[2] THEN c.A ELSE c.B
        lower == IF c.A[2] > c.P[2] THEN c.B ELSE c.A
    IN  /\ (c.A[2] > c.P[2]) # (c.B[2] > c.P[2])
        /\ cross_product(PointSub(upper, lower), PointSub(c.P, lower)) > 0

\* the edges of the polygon, by the index of their end: the edge i runs from
\* the vertex before i (cyclically) to vertex i
CrossedEdges(P, vertices) ==
    { i \in 1..Len(vertices) :
          RayCrossesEdge(P, vertices[i],
                         vertices[IF i = 1 THEN Len(vertices) ELSE i - 1]) }

\* P is inside by the even-odd rule: the ray crosses an odd number of edges
EvenOddInside(P, vertices) == Cardinality(CrossedEdges(P, vertices)) % 2 = 1

---------------------------------------------------------------------------
(* Samples of a Beam (checked under SpecBeam) *)

\* generate_samples has been called on the Beam
SamplesGenerated ==
    /\ BeamReturned
    /\ beam.result.raised = "none"
    /\ beam.samples.some

\* anchor + (k / 2) * forward, forward the counterclockwise perpendicular
\* (-y, x) of the starboard_vector (x, y) of the call
HalvesForward(k) ==
    RP(2 * beam.kwargs.anchor_point[1] - k * beam.kwargs.starboard_vector[2],
       2 * beam.kwargs.anchor_point[2] + k * beam.kwargs.starboard_vector[1], 2)

C13_WitnessOneSample ==
    /\ SamplesGenerated
    /\ Len(beam.result.obj.vertices) = 5
    /\ Len(beam.samples.pts) = 1

---------------------------------------------------------------------------
(* Calls on Polygon and OrientedSegment (primitives.py) *)

\* OrientedSegment(labeled_points), the dict given as its items in insertion
\* order: ValueError unless there are exactly 2 entries
OrientedSegmentInit(items) ==
    IF Len(items) # 2
    THEN [raised |-> "ValueError",
          message |-> "OrientedSegment requires exactly 2 labeled points, got "
                      \o ToString(Len(items))]
    ELSE [raised |-> "none", obj |-> OrientedSegment(items)]

\* segment.get_point_by_label(label): ValueError for a label not in the dict
GetPointByLabelCall(seg, label) ==
    IF label \notin {seg.p1_label, seg.p2_label}
    THEN [raised |-> "ValueError"]
    ELSE [raised |-> "none", value |-> get_point_by_label(seg, label)]

\* segment.assert_labels(expected_labels)
AssertLabelsCall(seg, expected_labels) ==
    IF LabelsAre(seg, expected_labels)
    THEN [raised |-> "none"]
    ELSE [raised |-> "AssertionError"]

\* Inputs.  Polygons of up to MaxVertices vertices drawn from the corners
\* and the centre of a square, asked about points on the half-unit grid.
MaxVertices == 4

PolygonPoints == { <<0, 0>>, <<2, 0>>, <<2, 2>>, <<0, 2>>, <<1, 1>> }

InputPolygons ==
    UNION { [1..n -> { RPoint(p) : p \in PolygonPoints }] : n \in 0..MaxVertices }

InputQueryPoints == { <<xn, yn, 2>> : xn \in 0..4, yn \in 0..4 }

\* dicts of up to 3 entries with distinct keys, in every insertion order
InputLabels == {"port", "starboard", "bow"}

InputLabeledPoints ==
    { items \in UNION { [1..n -> InputLabels \X {<<-2, 2>>, <<2, 4>>}] : n \in 0..3 } :
          /\ \A i \in 1..Len(items), j \in 1..Len(items) :
                 i # j => items[i][1] # items[j][1]
          /\ \A i \in 1..Len(items) :
                 items[i][2] = IF i = 2 THEN <<2, 4>> ELSE <<-2, 2>> }

InputQueryLabels == InputLabels \cup {"stern"}

InputExpectedLabels == { {"port", "starboard"}, {"port", "bow"}, {"port"} }

\* a well-labelled extent to go with the segment under test
GoodExtent == OrientedSegment(<<<<"port", <<-2, 4>>>>, <<"starboard", <<2, 2>>>>>>)

InitPrim ==
    /\ prim \in { [pc |-> "call", op |-> "is_inside", vertices |-> vs, point |-> P] :
                     vs \in InputPolygons, P \in InputQueryPoints }
               \cup { [pc |-> "call", op |-> "OrientedSegment", labeled_points |-> items] :
                         items \in InputLabeledPoints }
    /\ tri = Idle
    /\ beam = Idle
    /\ lin = Idle
    /\ net = Idle
    /\ srv = Idle

\* Polygon(vertices).is_inside(point)
PolygonIsInside ==
    /\ prim.pc = "call"
    /\ prim.op = "is_inside"
    /\ prim' = [prim EXCEPT !.pc = "returned"] @@
               [result |-> is_inside(prim.vertices, prim.point)]
    /\ UNCHANGED <<tri, beam, lin, net, srv>>

\* OrientedSegment(labeled_points) returns the segment or raises
OrientedSegmentNew ==
    /\ prim.pc = "call"
    /\ prim.op = "OrientedSegment"
    /\ prim' = [prim EXCEPT !.pc = "constructed"] @@
               [result |-> OrientedSegmentInit(prim.labeled_points)]
    /\ UNCHANGED <<tri, beam, lin, net, srv>>

\* the OrientedSegment was constructed and no method has been called on it
SegmentAtHand ==
    /\ prim.pc = "constructed"
    /\ prim.result.raised = "none"

GetPointByLabel ==
    /\ SegmentAtHand
    /\ \E label \in InputQueryLabels :
           prim' = [prim EXCEPT !.pc = "returned"] @@
                   [method |-> "get_point_by_label", label |-> label,
                    answer |-> GetPointByLabelCall(prim.result.obj, label)]
    /\ UNCHANGED <<tri, beam, lin, net, srv>>

AssertLabels ==
    /\ SegmentAtHand
    /\ \E expected_labels \in InputExpectedLabels :
           prim' = [prim EXCEPT !.pc = "returned"] @@
                   [method |-> "assert_labels", expected_labels |-> expected_labels,
                    answer |-> AssertLabelsCall(prim.result.obj, expected_labels)]
    /\ UNCHANGED <<tri, beam, lin, net, srv>>

\* Beam(extent_segments=..., ...) with the segment as its only extent, or as
\* the second of two extents
BeamOfSegment ==
    /\ SegmentAtHand
    /\ \E es \in { <<prim.result.obj>>, <<GoodExtent, prim.result.obj>> } :
           prim' = [prim EXCEPT !.pc = "returned"] @@
                   [method |-> "Beam", extent_segments |-> es,
                    answer |-> BeamInit([extent_segments |-> es,
                                         beam_index |-> 0,
                                         edge_index |-> 0,
                                         anchor_point |-> <<0, 0>>,
                                         starboard_vector |-> <<4, 0>>,
                                         parity |-> 0,
                                         face_index |-> 0,
                                         facet_index |-> 0])]
    /\ UNCHANGED <<tri, beam, lin, net, srv>>

NextPrim ==
    PolygonIsInside \/ OrientedSegmentNew \/ GetPointByLabel \/ AssertLabels \/ BeamOfSegment

SpecPrim == InitPrim /\ [][NextPrim]_vars

---------------------------------------------------------------------------
(* Properties of Polygon.is_inside (checked under SpecPrim) *)

IsInsideReturned ==
    /\ prim.pc = "returned"
    /\ prim.op = "is_inside"

\* C14: is_inside(point) is true exactly when the ray from the point in the
\* +x direction crosses an odd number of edges of the polygon; it is false
\* for every point when the polygon has 0, 1 or 2 vertices.
C14_IsInsideEvenOdd ==
    IsInsideReturned =>
        /\ prim.result <=> EvenOddInside(prim.point, prim.vertices)
        /\ Len(prim.vertices) \in {0, 1, 2} => ~prim.result

\* a point found inside a polygon of four vertices, its ray crossing 1 edge
C14_Witness ==
    /\ IsInsideReturned
    /\ Len(prim.vertices) = 4
    /\ Cardinality(CrossedEdges(prim.point, prim.vertices)) = 1
    /\ prim.result

\* a point whose ray crosses the one edge of a 2-vertex polygon, and is not
\* inside
C14_WitnessTwoVertices ==
    /\ IsInsideReturned
    /\ Len(prim.vertices) = 2
    /\ RayCrossesEdge(prim.point, prim.vertices[1], prim.vertices[2])
    /\ ~prim.result

\* a point found outside because its ray crosses two edges
C14_WitnessTwoCrossings ==
    /\ IsInsideReturned
    /\ Len(prim.vertices) = 4
    /\ Cardinality(CrossedEdges(prim.point, prim.vertices)) = 2
    /\ ~prim.result

---------------------------------------------------------------------------
(* Properties of OrientedSegment labels (checked under SpecPrim) *)

\* the keys of the dict handed to OrientedSegment
GivenLabels == { prim.labeled_points[i][1] : i \in 1..Len(prim.labeled_points) }

\* the constructor of OrientedSegment has returned or raised
SegmentCallDone ==
    /\ prim.op = "OrientedSegment"
    /\ prim.pc # "call"

\* the method was called on the constructed segment
MethodReturned(method) ==
    /\ prim.op = "OrientedSegment"
    /\ prim.pc = "returned"
    /\ prim.method = method

\* C15: OrientedSegment raises ValueError naming the number of entries
\* unless the dict has exactly 2 entries; get_point_by_label raises
\* ValueError for a label that is not one of the two; Beam construction
\* fails when an extent's label set is not {port, starboard}.
C15_MalformedLabels ==
    /\ SegmentCallDone =>
           IF Len(prim.labeled_points) = 2
           THEN /\ prim.result.raised = "none"
                /\ {prim.result.obj.p1_label, prim.result.obj.p2_label} = GivenLabels
           ELSE /\ prim.result.raised = "ValueError"
                /\ prim.result.message =
                       "OrientedSegment requires exactly 2 labeled points, got "
                       \o ToString(Len(prim.labeled_points))
                /\ "obj" \notin DOMAIN prim.result
    /\ MethodReturned("get_point_by_label") =>
           IF prim.label \in GivenLabels
           THEN /\ prim.answer.raised = "none"
                /\ \E i \in 1..2 : prim.labeled_points[i] = <<prim.label, prim.answer.value>>
           ELSE prim.answer.raised = "ValueError"
    /\ MethodReturned("Beam") =>
           (prim.answer.raised = "none" <=> GivenLabels = {"port", "starboard"})

\* a Beam refused for an extent labelled port and bow
C15_Witness ==
    /\ MethodReturned("Beam")
    /\ GivenLabels = {"port", "bow"}
    /\ Len(prim.extent_segments) = 2
    /\ prim.answer.raised = "AssertionError"

\* the constructor refused a dict of 3 entries
C15_WitnessThreeEntries ==
    /\ SegmentCallDone
    /\ Len(prim.labeled_points) = 3
    /\ prim.result.raised = "ValueError"

\* get_point_by_label refused a label the segment does not have
C15_WitnessForeignLabel ==
    /\ MethodReturned("get_point_by_label")
    /\ prim.label = "stern"
    /\ prim.answer.raised = "ValueError"

---------------------------------------------------------------------------
(* Triangle._calculate_incenter on its own *)

\* Inputs: the triangles on a small grid whose side lengths are integers
\* and whose incenter has integer coordinates, so that every operation of
\* _calculate_incenter is exact.  Among them are (0,0), (4,0), (0,3), the
\* collinear (0,0), (2,0), (5,0), and triangles with coincident vertices.
IncenterGridX == {0, 2, 3, 4, 5, 8}

IncenterGridY == {0, 3, 4, 6}

IncenterGridPoints == { <<x, y>> : x \in IncenterGridX, y \in IncenterGridY }

IsSquare(n) == \E r \in 0..n : r * r = n

\* a * p1 + b * p2 + c * p3 for weights a, b, c
WeightedSum(vs, a, b, c) ==
    <<a * vs[1][1] + b * vs[2][1] + c * vs[3][1],
      a * vs[1][2] + b * vs[2][2] + c * vs[3][2]>>

IncenterIsExact(vs) ==
    /\ IsSquare(distance2(vs[2], vs[3]))
    /\ IsSquare(distance2(vs[1], vs[3]))
    /\ IsSquare(distance2(vs[1], vs[2]))
    /\ LET a == SegmentLength(vs[2], vs[3])
           b == SegmentLength(vs[1], vs[3])
           c == SegmentLength(vs[1], vs[2])
       IN  IF a + b + c = 0
           THEN TRUE
           ELSE /\ WeightedSum(vs, a, b, c)[1] % (a + b + c) = 0
                /\ WeightedSum(vs, a, b, c)[2] % (a + b + c) = 0

InputIncenterTriangles ==
    { vs \in IncenterGridPoints \X IncenterGridPoints \X IncenterGridPoints :
          IncenterIsExact(vs) }

InitIncenter ==
    /\ tri \in { [pc |-> "incenter", vertices |-> vs] : vs \in InputIncenterTriangles }
    /\ beam = Idle
    /\ lin = Idle
    /\ net = Idle
    /\ prim = Idle
    /\ srv = Idle

\* self.incenter = self._calculate_incenter()
IncenterCall ==
    /\ tri.pc = "incenter"
    /\ tri' = [pc |-> "incenter_done", vertices |-> tri.vertices,
               incenter |-> CalculateIncenter(tri.vertices)]
    /\ UNCHANGED <<beam, lin, net, prim, srv>>

NextIncenter == IncenterCall

SpecIncenter == InitIncenter /\ [][NextIncenter]_vars

---------------------------------------------------------------------------
(* Properties of the incenter (checked under SpecIncenter) *)

IncenterDone == tri.pc = "incenter_done"

\* the length of the side opposite vertex i: the side between the other two
OppositeSide(i) ==
    LET j == (i % 3) + 1
        k == ((i + 1) % 3) + 1
    IN  CHOOSE r \in 0..10 : r * r = distance2(tri.vertices[j], tri.vertices[k])

Perimeter == OppositeSide(1) + OppositeSide(2) + OppositeSide(3)

\* twice the signed area of the triangle
DoubleArea ==
    cross_product(PointSub(tri.vertices[2], tri.vertices[1]),
                  PointSub(tri.vertices[3], tri.vertices[1]))

\* the incenter is (a*A + b*B + c*C) / (a + b + c), a, b, c opposite A, B, C
IncenterIsWeightedByOpposite ==
    VecScale(tri.incenter, Perimeter)
        = WeightedSum(tri.vertices, OppositeSide(1), OppositeSide(2), OppositeSide(3))

\* the incenter is the unweighted centroid (A + B + C) / 3
IncenterIsCentroid ==
    VecScale(tri.incenter, 3) = WeightedSum(tri.vertices, 1, 1, 1)

\* C16: for every triangle of non-zero perimeter the incenter is
\* (a*A + b*B + c*C) / (a + b + c) with a, b, c the lengths of the sides
\* opposite A, B, C; the triangle (0,0), (4,0), (0,3) has incenter (1,1).
C16_IncenterOppositeSides ==
    IncenterDone =>
        /\ Perimeter # 0 => IncenterIsWeightedByOpposite
        /\ tri.vertices = <<<<0, 0>>, <<4, 0>>, <<0, 3>>>> => tri.incenter = <<1, 1>>

\* the incenter of (0,0), (4,0), (0,3) has been computed
C16_Witness ==
    /\ IncenterDone
    /\ tri.vertices = <<<<0, 0>>, <<4, 0>>, <<0, 3>>>>
    /\ DoubleArea # 0
    /\ tri.incenter = <<1, 1>>

VertexBetweenOthers(i) ==
    LET j == (i % 3) + 1
        k == ((i + 1) % 3) + 1
    IN  dot_product(PointSub(tri.vertices[j], tri.vertices[i]),
                    PointSub(tri.vertices[k], tri.vertices[i])) <= 0

C17_WitnessZeroPerimeter ==
    /\ IncenterDone
    /\ Perimeter = 0
    /\ IncenterIsCentroid

---------------------------------------------------------------------------
(* Keys of the colours dictionary (checked under SpecNet) *)

\* the beams the SVG of a finished Net renders, by their place
RenderedBeamIds ==
    { net.triangles[place[1]].facets[place[2]].beams[place[3]][place[4]].beam_id :
          place \in BeamPlaces }

C18_DictOfBuiltNet ==
    /\ net.pc = "colored"
    /\ Len(net.triangles) = 2

---------------------------------------------------------------------------
(* The stride loop of Facet._generate_beams, in values                     *)
(*                                                                         *)
(* The forward ray j of an edge starts at edge_start + (j / beam_count) *  *)
(* edge_vector and points along forward = perp(edge_vector).  An axis      *)
(* point is a rational point.  A bisector point is start + t * forward     *)
(* with t = (A / |d1| + B / |d2|) / (C / |d1| + D / |d2|), where d1, d2    *)
(* are the arms of the bisector and C, D do not depend on j: it is kept as *)
(* [base |-> beam_count * start, coef |-> <<A, B>> * beam_count].          *)

\* the vector from the rational point P to the rational point Q
RPSub(Q, P) == RP(Q[1] * P[3] - P[1] * Q[3], Q[2] * P[3] - P[2] * Q[3], Q[3] * P[3])

\* the rational point P + s * V
RPAddScaled(P, V, s) ==
    RP(P[1] * V[3] + s * V[1] * P[3], P[2] * V[3] + s * V[2] * P[3], P[3] * V[3])

\* lines 255-258, 303-311: beam_count * (edge_start + (j / beam_count) *
\* edge_vector)
ForwardRayStart(fv, edge_idx, beam_count, j) ==
    PointAdd(VecScale(GetEdgePoints(fv, edge_idx).p1, beam_count),
             VecScale(GetEdgeVectorCounterclockwise(fv, edge_idx), j))

\* the point where the line of forward ray j meets the line of the axis
\* (primitives.py lines 154-165 and 273-276); the lines are not parallel
AxisPointOfRay(fv, edge_idx, beam_count, j) ==
    LET start == ForwardRayStart(fv, edge_idx, beam_count, j)
        forward == perpendicular_counterclockwise(
                       GetEdgeVectorCounterclockwise(fv, edge_idx))
        axis == GetAxisOfSymmetry(fv)
        vec2 == PointSub(axis.p2, axis.p1)
        denom == cross_product(forward, vec2)
        vec3 == PointSub(VecScale(axis.p1, beam_count), start)
        t1n == cross_product(vec3, vec2)
    IN  RP(start[1] * denom + forward[1] * t1n,
           start[2] * denom + forward[2] * t1n,
           beam_count * denom)

\* the point where the line of forward ray j meets the line of the edge's
\* lateral bisector
BisectorPointOfRay(fv, edge_idx, beam_count, j) ==
    LET start == ForwardRayStart(fv, edge_idx, beam_count, j)
        b == CloseBisectorRay(fv, edge_idx)
        vec3 == PointSub(VecScale(b.origin, beam_count), start)
    IN  [base |-> start,
         coef |-> IF b.form = "vector"
                  THEN <<cross_product(vec3, b.v), 0>>
                  ELSE <<cross_product(vec3, b.d1), cross_product(vec3, b.d2)>>]

\* lines 290-294 and 314-321: first_beamport_axis + stride *
\* axis_stride_vector, the axis point the loop hands on after stride steps
StrideAxisPoint(fv, edge_idx, beam_count, stride) ==
    LET first_beamport_axis == AxisPointOfRay(fv, edge_idx, beam_count, 0)
        first_beamstarboard_axis == AxisPointOfRay(fv, edge_idx, beam_count, 1)
        axis_stride_vector == RPSub(first_beamstarboard_axis, first_beamport_axis)
    IN  RPAddScaled(first_beamport_axis, axis_stride_vector, stride)

\* first_beamport_bisector + stride * bisector_stride_vector
StrideBisectorPoint(fv, edge_idx, beam_count, stride) ==
    LET first_beamport_bisector == BisectorPointOfRay(fv, edge_idx, beam_count, 0)
        first_beamstarboard_bisector == BisectorPointOfRay(fv, edge_idx, beam_count, 1)
        step(p, q) == <<p[1] + stride * (q[1] - p[1]), p[2] + stride * (q[2] - p[2])>>
    IN  [base |-> step(first_beamport_bisector.base, first_beamstarboard_bisector.base),
         coef |-> step(first_beamport_bisector.coef, first_beamstarboard_bisector.coef)]

\* lines 239-287: the edge is neither skipped nor left empty: its beam loop
\* is entered
BeamLoopEntered(fv, beam_counts, edge_idx) ==
    LET beam_count == beam_counts[edge_idx + 1]
        edge_segment == GetEdgePoints(fv, edge_idx)
        forward == perpendicular_counterclockwise(
                       GetEdgeVectorCounterclockwise(fv, edge_idx))
        axis == GetAxisOfSymmetry(fv)
        bisector == CloseBisectorRay(fv, edge_idx)
    IN  /\ distance2(edge_segment.p1, edge_segment.p2) # 0
        /\ beam_count # 0
        /\ RayMeetsAxis(ForwardRayStart(fv, edge_idx, beam_count, 0), beam_count, forward, axis)
        /\ RayMeetsAxis(ForwardRayStart(fv, edge_idx, beam_count, 1), beam_count, forward, axis)
        /\ RayMeetsBisector(ForwardRayStart(fv, edge_idx, beam_count, 0), beam_count,
                            forward, bisector)
        /\ RayMeetsBisector(ForwardRayStart(fv, edge_idx, beam_count, 1), beam_count,
                            forward, bisector)

---------------------------------------------------------------------------
(* Stride against re-solve (checked under Spec) *)

TriangleLeft == tri.pc \in {"done", "raised"}

\* the vertex tuples of the Facets whose construction was begun: those of
\* the Facets built and, after an exception, that of the Facet it left
BegunFacetVertices ==
    { tri.facets[k].vertices : k \in 1..Len(tri.facets) }
    \cup IF tri.pc = "raised"
         THEN { FacetVertices(tri.vertices, tri.edge_midpoints, tri.incenter,
                              tri.ordered_vertices[tri.label_idx + 1]) }
         ELSE {}

\* beam number beam_idx of the edge was generated: a Facet with these
\* vertices was built and holds it
BeamGenerated(fv, edge_idx, beam_idx) ==
    \E k \in 1..Len(tri.facets) :
        /\ tri.facets[k].vertices = fv
        /\ edge_idx + 1 <= Len(tri.facets[k].beams)
        /\ beam_idx + 1 <= Len(tri.facets[k].beams[edge_idx + 1])

\* the near and far axis and bisector points the stride loop hands to beam
\* beam_idx are those of the beam's own two forward rays
StrideAgreesWithResolve(fv, edge_idx, beam_count, beam_idx) ==
    \A j \in {beam_idx, beam_idx + 1} :
        /\ StrideAxisPoint(fv, edge_idx, beam_count, j)
               = AxisPointOfRay(fv, edge_idx, beam_count, j)
        /\ StrideBisectorPoint(fv, edge_idx, beam_count, j)
               = BisectorPointOfRay(fv, edge_idx, beam_count, j)

C19_LoopLeft ==
    /\ tri.pc = "raised"
    /\ \E fv \in BegunFacetVertices :
           /\ BeamLoopEntered(fv, tri.beam_counts, 0)
           /\ tri.beam_counts[1] = 7
           /\ ~BeamGenerated(fv, 0, 0)

---------------------------------------------------------------------------
(* The degeneracy decisions of the geometry core                           *)
(*                                                                         *)
(* Each decision is taken on a magnitude: a length, a perimeter or a cross *)
(* product.  The calls below are on an integer grid whose unit is          *)
(* 1 / (m * TolRoot^e) of the program's unit: m = 1, e = 0 is geometry of  *)
(* ordinary size; m = 3, e = 2 is the same geometry shrunk until one grid  *)
(* unit is a third of the 1e-10 tolerance.  prim.pc goes from "decide" to  *)
(* "decided".                                                              *)

\* Vector.unit_vector takes its zero-vector branch
UnitVectorIsZero(v) == length2(v) = 0

\* Angle.bisector takes its arbitrary-direction branch
BisectorArmIsZero(apex, point1, point2) ==
    length2(PointSub(point1, apex)) = 0 \/ length2(PointSub(point2, apex)) = 0

\* Angle.bisector takes its perpendicular branch: the sum of the unit arms
\* has length 0
BisectorArmsOpposite(apex, point1, point2) ==
    LET vec1 == PointSub(point1, apex)
        vec2 == PointSub(point2, apex)
    IN  /\ ~BisectorArmIsZero(apex, point1, point2)
        /\ cross_product(vec1, vec2) = 0
        /\ dot_product(vec1, vec2) < 0

\* Facet._generate_beams skips the edge
EdgeIsSkipped(p1, p2) == distance2(p1, p2) = 0

\* Triangle._calculate_incenter takes its centroid branch: the sum of the
\* three side lengths is 0
PerimeterIsZero(vs) ==
    /\ distance2(vs[2], vs[3]) = 0
    /\ distance2(vs[1], vs[3]) = 0
    /\ distance2(vs[1], vs[2]) = 0

DegenCoordinates == {-1, 0, 1, 5}

DegenPoints == { <<x, y>> : x \in DegenCoordinates, y \in DegenCoordinates }

DegenOrigins == { <<0, 0>>, <<1, 1>> }

DegenUnits == { [m |-> 1, e |-> 0], [m |-> 3, e |-> 2] }

\* the grid unit of the parallel test is 1 / unitDen.  Opposite arms of a
\* bisector call are of equal length: their unit vectors are then exact
\* negatives of each other in floating point as well.
DegenCalls ==
    { [op |-> "unit_vector", v |-> v, unit |-> u] :
        v \in DegenPoints, u \in DegenUnits }
    \cup { c \in [op : {"bisector"}, apex : DegenOrigins, point1 : DegenPoints,
                   point2 : DegenPoints, unit : DegenUnits] :
             BisectorArmsOpposite(c.apex, c.point1, c.point2) =>
                 distance2(c.apex, c.point1) = distance2(c.apex, c.point2) }
    \cup { [op |-> "_line_intersection_t",
            self |-> [kind |-> "Line", p1 |-> <<0, 0>>, p2 |-> p],
            other |-> [kind |-> "Line", p1 |-> <<1, 1>>, p2 |-> q],
            unitDen |-> d] :
             p \in DegenPoints, q \in DegenPoints, d \in InputUnitDens }
    \cup { [op |-> "_generate_beams", p1 |-> a, p2 |-> p, unit |-> u] :
             a \in DegenOrigins, p \in DegenPoints, u \in DegenUnits }
    \cup { [op |-> "_calculate_incenter", vertices |-> <<a, p, q>>, unit |-> u] :
             a \in DegenOrigins, p \in DegenPoints, q \in DegenPoints, u \in DegenUnits }

InitDegen ==
    /\ prim \in { [pc |-> "decide", call |-> c] : c \in DegenCalls }
    /\ tri = Idle
    /\ beam = Idle
    /\ lin = Idle
    /\ net = Idle
    /\ srv = Idle

Decided(degenerate) ==
    [pc |-> "decided", call |-> prim.call, degenerate |-> degenerate]

\* Vector.unit_vector
UnitVectorCall ==
    /\ prim.pc = "decide"
    /\ prim.call.op = "unit_vector"
    /\ prim' = Decided(UnitVectorIsZero(prim.call.v))
    /\ UNCHANGED <<tri, beam, lin, net, srv>>

\* Angle.bisector: the zero-arm test, then the opposite-arms test
BisectorCall ==
    /\ prim.pc = "decide"
    /\ prim.call.op = "bisector"
    /\ prim' = [pc |-> "decided", call |-> prim.call,
                degenerate |-> BisectorArmIsZero(prim.call.apex, prim.call.point1,
                                                 prim.call.point2),
                opposite |-> BisectorArmsOpposite(prim.call.apex, prim.call.point1,
                                                  prim.call.point2),
                ray |-> AngleBisector(prim.call.apex, prim.call.point1, prim.call.point2)]
    /\ UNCHANGED <<tri, beam, lin, net, srv>>

\* LinearElement._line_intersection_t
LineIntersectionTCall ==
    /\ prim.pc = "decide"
    /\ prim.call.op = "_line_intersection_t"
    /\ prim' = Decided(LineIntersectionT(prim.call.self, prim.call.other,
                                         prim.call.unitDen) = None)
    /\ UNCHANGED <<tri, beam, lin, net, srv>>

\* the zero-length-edge test of Facet._generate_beams
EdgeLengthTest ==
    /\ prim.pc = "decide"
    /\ prim.call.op = "_generate_beams"
    /\ prim' = Decided(EdgeIsSkipped(prim.call.p1, prim.call.p2))
    /\ UNCHANGED <<tri, beam, lin, net, srv>>

\* the zero-perimeter test of Triangle._calculate_incenter
PerimeterTest ==
    /\ prim.pc = "decide"
    /\ prim.call.op = "_calculate_incenter"
    /\ prim' = Decided(PerimeterIsZero(prim.call.vertices))
    /\ UNCHANGED <<tri, beam, lin, net, srv>>

NextDegen ==
    \/ UnitVectorCall
    \/ BisectorCall
    \/ LineIntersectionTCall
    \/ EdgeLengthTest
    \/ PerimeterTest

SpecDegen == InitDegen /\ [][NextDegen]_vars

---------------------------------------------------------------------------
(* One tolerance for every decision (checked under SpecDegen) *)

\* sqrt(len2) grid units are below 1e-10: sqrt(len2) / (m * TolRoot^e) <
\* 1 / TolRoot^2.  With e = 2 that is len2 < m^2; with e = 0 and m below
\* TolRoot^2 only len2 = 0 is.
LengthBelowTol(len2, unit) ==
    IF unit.e = 2 THEN len2 < unit.m * unit.m ELSE len2 = 0

\* the largest r with r * r <= n
RootFloor(n) == CHOOSE r \in 0..n : r * r <= n /\ n < (r + 1) * (r + 1)

\* the sum of the three side lengths is below 1e-10.  The lengths are
\* taken in hundredths of a grid unit, each rounded down; on the grid of
\* DegenPoints no perimeter is within 3 hundredths of m.
PerimeterBelowTol(vs, unit) ==
    LET a == RootFloor(10000 * distance2(vs[2], vs[3]))
        b == RootFloor(10000 * distance2(vs[1], vs[3]))
        c == RootFloor(10000 * distance2(vs[1], vs[2]))
    IN  IF unit.e = 2 THEN a + b + c + 3 <= 100 * unit.m ELSE a + b + c = 0

\* the length of the sum of the two unit arms is below 1e-10.  That length
\* is 2 * cos(half the angle between the arms), whatever the grid unit; for
\* arms on the grid of DegenPoints it is 0 or above 1/100.
BisectorLenBelowTol(apex, point1, point2) ==
    LET vec1 == PointSub(point1, apex)
        vec2 == PointSub(point2, apex)
    IN  cross_product(vec1, vec2) = 0 /\ dot_product(vec1, vec2) < 0

DegenDecided == prim.pc = "decided"

\* the magnitude the decision of the call is taken on is below 1e-10
MagnitudeBelowTol ==
    LET c == prim.call
    IN  CASE c.op = "unit_vector" -> LengthBelowTol(length2(c.v), c.unit)
          [] c.op = "bisector" ->
                \/ LengthBelowTol(length2(PointSub(c.point1, c.apex)), c.unit)
                \/ LengthBelowTol(length2(PointSub(c.point2, c.apex)), c.unit)
          [] c.op = "_line_intersection_t" ->
                BelowTol(cross_product(PointSub(c.self.p2, c.self.p1),
                                       PointSub(c.other.p2, c.other.p1)), c.unitDen)
          [] c.op = "_generate_beams" -> LengthBelowTol(distance2(c.p1, c.p2), c.unit)
          [] c.op = "_calculate_incenter" -> PerimeterBelowTol(c.vertices, c.unit)

\* C20: every degeneracy decision treats a magnitude as zero exactly when
\* it is below the one tolerance 1e-10: the parallel test of the
\* intersection, the zero-length test of Vector.unit_vector, the zero-arm
\* and opposite-arms tests of Angle.bisector, the zero-length-edge skip of
\* the beam generation and the zero-perimeter test of the incenter.
C20_OneTolerance ==
    DegenDecided =>
        /\ prim.degenerate <=> MagnitudeBelowTol
        /\ (prim.call.op = "bisector" /\ ~MagnitudeBelowTol) =>
               (prim.opposite <=> BisectorLenBelowTol(prim.call.apex, prim.call.point1,
                                                      prim.call.point2))

\* the parallel test alone decides by the tolerance
C20_ParallelByTolerance ==
    (DegenDecided /\ prim.call.op = "_line_intersection_t") =>
        (prim.degenerate <=> MagnitudeBelowTol)

\* every other decision is taken on exact zero
C20_OthersByExactZero ==
    (DegenDecided /\ prim.call.op # "_line_intersection_t") =>
        (prim.degenerate <=>
            CASE prim.call.op = "unit_vector" -> prim.call.v = <<0, 0>>
              [] prim.call.op = "bisector" ->
                    prim.call.apex \in {prim.call.point1, prim.call.point2}
              [] prim.call.op = "_generate_beams" -> prim.call.p1 = prim.call.p2
              [] prim.call.op = "_calculate_incenter" ->
                    /\ prim.call.vertices[1] = prim.call.vertices[2]
                    /\ prim.call.vertices[2] = prim.call.vertices[3])

\* a vector a third of the tolerance long whose unit vector is not zero
C20_ShortVectorKept ==
    /\ DegenDecided
    /\ prim.call.op = "unit_vector"
    /\ prim.call.v = <<1, 0>>
    /\ prim.call.unit.e = 2
    /\ ~prim.degenerate

---------------------------------------------------------------------------
(* The running parity of a Facet's beams (checked under Spec) *)

RECURSIVE BeamsBeforeEdge(_, _, _)

\* the number of beams of the edges before edge_idx whose beam loop is
\* entered: the beams generated before the first beam of edge_idx
BeamsBeforeEdge(fv, beam_counts, edge_idx) ==
    IF edge_idx = 0 THEN 0
    ELSE BeamsBeforeEdge(fv, beam_counts, edge_idx - 1)
         + IF BeamLoopEntered(fv, beam_counts, edge_idx - 1)
           THEN beam_counts[edge_idx]
           ELSE 0

\* the parity of beam number beam_idx of the edge, in the Facet built with
\* these vertices
ParityOfBeam(fv, edge_idx, beam_idx) ==
    { tri.facets[k].beams[edge_idx + 1][beam_idx + 1].parity :
        k \in { i \in 1..Len(tri.facets) : tri.facets[i].vertices = fv } }

---------------------------------------------------------------------------
(* Edges treated as empty (checked under Spec) *)

\* the edge has non-zero length and the null-intersection test found one of
\* the first beam's four intersections to be None: an empty list is
\* appended for it
EdgeTreatedAsEmpty(fv, beam_counts, edge_idx) ==
    LET edge == GenerateEdge(fv, beam_counts, edge_idx, 0)
    IN  /\ distance2(GetEdgePoints(fv, edge_idx).p1, GetEdgePoints(fv, edge_idx).p2) # 0
        /\ edge.raised = "none"
        /\ edge.appended

\* the forward direction of the edge's beams is parallel to the axis or to
\* the bisector assigned to the edge
ForwardParallelToBoundary(fv, edge_idx) ==
    LET forward == perpendicular_counterclockwise(
                       GetEdgeVectorCounterclockwise(fv, edge_idx))
        axis == GetAxisOfSymmetry(fv)
    IN  \/ cross_product(forward, PointSub(axis.p2, axis.p1)) = 0
        \/ SgnCrossBisector(forward, CloseBisectorRay(fv, edge_idx)) = 0

\* C22: the first beam's forward rays are intersected with the axis and the
\* assigned bisector as infinitely extended lines, so an edge of non-zero
\* length of a constructed Facet is treated as empty only when the forward
\* direction is parallel to the axis or to the assigned bisector.
C22_EmptyOnlyWhenParallel ==
    tri.pc \in {"create_facets", "done", "raised"} =>
        \A k \in 1..Len(tri.facets) : \A edge_idx \in 0..3 :
            EdgeTreatedAsEmpty(tri.facets[k].vertices, tri.beam_counts, edge_idx) =>
                ForwardParallelToBoundary(tri.facets[k].vertices, edge_idx)

---------------------------------------------------------------------------
(* Contiguous extents along an edge (checked under Spec) *)

\* the value of the point labelled label of extent i (1 the axis extent,
\* 2 the bisector extent) in the Beam call of beam number beam_idx
ExtentPointOfCall(fv, edge_idx, beam_count, beam_idx, i, label) ==
    LET p == get_point_by_label(
                 FacetBeamKwargs(edge_idx, beam_count, beam_idx, 0).extent_segments[i],
                 label)
    IN  IF p.on = "axis"
        THEN StrideAxisPoint(fv, edge_idx, beam_count, p.stride)
        ELSE StrideBisectorPoint(fv, edge_idx, beam_count, p.stride)

\* port point of beam number beam_idx = starboard point of the beam before
\* it, on both extents; beam 0's port points are the first beam's solved
\* port intersections
ExtentsJoin(fv, edge_idx, beam_count, beam_idx) ==
    IF beam_idx = 0
    THEN /\ ExtentPointOfCall(fv, edge_idx, beam_count, 0, 1, "port")
                = AxisPointOfRay(fv, edge_idx, beam_count, 0)
         /\ ExtentPointOfCall(fv, edge_idx, beam_count, 0, 2, "port")
                = BisectorPointOfRay(fv, edge_idx, beam_count, 0)
    ELSE \A i \in 1..2 :
             ExtentPointOfCall(fv, edge_idx, beam_count, beam_idx, i, "port")
                 = ExtentPointOfCall(fv, edge_idx, beam_count, beam_idx - 1, i, "starboard")

\* the starboard point of the axis extent is its port point plus the stride
\* computed from the first beam
FarIsNearPlusStride(fv, edge_idx, beam_count, beam_idx) ==
    ExtentPointOfCall(fv, edge_idx, beam_count, beam_idx, 1, "starboard")
        = RPAddScaled(ExtentPointOfCall(fv, edge_idx, beam_count, beam_idx, 1, "port"),
                      RPSub(AxisPointOfRay(fv, edge_idx, beam_count, 1),
                            AxisPointOfRay(fv, edge_idx, beam_count, 0)),
                      1)

---------------------------------------------------------------------------
(* The bisector assigned to an edge (checked under Spec) *)

\* the Facet begun from these vertices has four edges of non-zero length
\* and no three of its vertices on a line through a lateral vertex
FacetInGeneralPosition(fv) ==
    /\ \A edge_idx \in 0..3 :
           distance2(GetEdgePoints(fv, edge_idx).p1, GetEdgePoints(fv, edge_idx).p2) # 0
    /\ cross_product(PointSub(fv[1], fv[2]), PointSub(fv[3], fv[2])) # 0
    /\ cross_product(PointSub(fv[1], fv[4]), PointSub(fv[3], fv[4])) # 0

\* the ray b starts at apex and halves the angle between the directions
\* from apex to p and to q: its direction is the sum of the unit vectors
\* along the two arms
HalvesAngle(b, apex, p, q) ==
    /\ b.origin = apex
    /\ b.form = "sum"
    /\ {b.d1, b.d2} = {PointSub(p, apex), PointSub(q, apex)}

\* the bisector of the edge starts at a lateral vertex (facet vertex 1 or
\* 3) that is an endpoint of the edge, and halves the angle there between
\* the primary vertex and the incenter
BisectorAtEdgeEndpoint(fv, edge_idx) ==
    LET b == CloseBisectorRay(fv, edge_idx)
        edge_segment == GetEdgePoints(fv, edge_idx)
    IN  /\ b.origin \in {fv[2], fv[4]}
        /\ b.origin \in {edge_segment.p1, edge_segment.p2}
        /\ HalvesAngle(b, b.origin, fv[1], fv[3])

---------------------------------------------------------------------------
(* The three Facets of a Triangle (checked under Spec) *)

\* the vertex tuple is (primary, midpoint of one triangle edge at primary,
\* incenter, midpoint of the other triangle edge at primary) for the
\* triangle vertex number i as primary
FacetOfPrimary(fv, i) ==
    \E j, l \in 1..3 :
        /\ {i, j, l} = {1, 2, 3}
        /\ fv = <<tri.vertices[i],
                  midpoint_to(tri.vertices[i], tri.vertices[j]),
                  tri.incenter,
                  midpoint_to(tri.vertices[i], tri.vertices[l])>>

\* the Facets built so far have the triangle vertices of ordered_vertices
\* as primaries, one each, and vertex tuples of that shape
FacetsOfDistinctPrimaries ==
    /\ Len(tri.facets) <= 3
    /\ \A k \in 1..Len(tri.facets) :
           FacetOfPrimary(tri.facets[k].vertices, tri.ordered_vertices[k] + 1)
    /\ \A k, m \in 1..Len(tri.facets) :
           k # m => tri.ordered_vertices[k] # tri.ordered_vertices[m]

\* C25: Triangle construction yields exactly 3 facets; each triangle
\* vertex is the primary vertex of exactly one of them, and each facet's
\* vertex tuple is (primary, midpoint of one triangle edge incident to
\* primary, incenter, midpoint of the other incident edge), never the
\* midpoint of the edge opposite the primary vertex.  The Facets built
\* before an exception leaves the construction have that shape as well.
C25_ThreeFacets ==
    /\ TriangleDone => Len(tri.facets) = 3
    /\ tri.pc \in {"create_facets", "done", "raised"} => FacetsOfDistinctPrimaries

\* a constructed triangle that is not degenerate: the midpoint of the edge
\* opposite a primary vertex differs from both midpoints at it
C25_Witness ==
    /\ TriangleDone
    /\ NonDegenerate
    /\ Len(tri.facets) = 3
    /\ \A k \in 1..3 :
           tri.edge_midpoints[((tri.ordered_vertices[k] + 1) % 3) + 1]
               \notin {tri.facets[k].vertices[2], tri.facets[k].vertices[4]}

---------------------------------------------------------------------------
(* Equidistant extents (checked under SpecBeam) *)

\* the two extents' endpoints on the side named by label are exactly
\* equidistant from the doubled baseline corner c2 of that side
EquidistantOnSide(c2, label) ==
    distance2(c2, VecScale(ExtentPoint(1, label), 2))
        = distance2(c2, VecScale(ExtentPoint(2, label), 2))

\* C26: in a Beam of two extents, when the extents' endpoints on a side are
\* exactly equidistant from that side's baseline corner, the second extent
\* (index 1) is selected for that side; two extents equidistant on both
\* sides yield the 4-sided polygon built from extent 1.
C26_SecondExtentOnTie ==
    TwoExtentBeam =>
        LET vs == beam.result.obj.vertices
        IN  /\ EquidistantOnSide(BaselinePort2, "port") =>
                vs[Len(vs)] = RPoint(ExtentPoint(2, "port"))
            /\ EquidistantOnSide(BaselineStarboard2, "starboard") =>
                vs[3] = RPoint(ExtentPoint(2, "starboard"))
            /\ (/\ EquidistantOnSide(BaselinePort2, "port")
                /\ EquidistantOnSide(BaselineStarboard2, "starboard")) =>
                   vs = <<RP(BaselinePort2[1], BaselinePort2[2], 2),
                          RP(BaselineStarboard2[1], BaselineStarboard2[2], 2),
                          RPoint(ExtentPoint(2, "starboard")),
                          RPoint(ExtentPoint(2, "port"))>>

\* two extents that differ in both endpoints and are equidistant on both
\* sides: the polygon is built from extent 1
C26_Witness ==
    /\ TwoExtentBeam
    /\ EquidistantOnSide(BaselinePort2, "port")
    /\ EquidistantOnSide(BaselineStarboard2, "starboard")
    /\ ExtentPoint(1, "port") # ExtentPoint(2, "port")
    /\ ExtentPoint(1, "starboard") # ExtentPoint(2, "starboard")
    /\ Len(beam.result.obj.vertices) = 4
    /\ beam.result.obj.vertices[4] = RPoint(ExtentPoint(2, "port"))

\* equidistant on the port side only, nearer with extent 0 on the starboard
\* side: a 5-sided polygon whose port vertex is extent 1's
C26_WitnessPortTieOnly ==
    /\ TwoExtentBeam
    /\ EquidistantOnSide(BaselinePort2, "port")
    /\ ExtentPoint(1, "port") # ExtentPoint(2, "port")
    /\ Len(beam.result.obj.vertices) = 5
    /\ beam.result.obj.vertices[5] = RPoint(ExtentPoint(2, "port"))

---------------------------------------------------------------------------
(* Beam counts of zero (checked under Spec) *)

\* the Facet begun from these vertices was constructed
FacetBuilt(fv) == \E k \in 1..Len(tri.facets) : tri.facets[k].vertices = fv

\* in the Facets constructed from these vertices the edge has an empty
\* beam list at its own position
EdgeListEmpty(fv, edge_idx) ==
    \A k \in 1..Len(tri.facets) :
        tri.facets[k].vertices = fv =>
            /\ Len(tri.facets[k].beams) = 4
            /\ tri.facets[k].beams[edge_idx + 1] = <<>>

\* C27: for every beam_counts tuple of non-negative integers the
\* construction of a Facet terminates without raising, and an edge whose
\* requested count is 0 gets an empty beam list.
C27_ZeroCountsAccepted ==
    TriangleLeft =>
        \A fv \in BegunFacetVertices :
            /\ FacetBuilt(fv)
            /\ \A edge_idx \in 0..3 :
                   tri.beam_counts[edge_idx + 1] = 0 => EdgeListEmpty(fv, edge_idx)

\* the same without the exception of the Beam call: no Facet construction
\* is left by a ZeroDivisionError
C27_NoZeroDivision ==
    tri.pc = "raised" => tri.raised # "ZeroDivisionError"

---------------------------------------------------------------------------
(* PatternAnimationServer (src/patterns/webserver/server.py)               *)
(*                                                                         *)
(* The server runs on one asyncio event loop: a task runs without          *)
(* interruption from one await that suspends it to the next, and each      *)
(* action below is one such run.  The tasks are the websocket_endpoint     *)
(* coroutine of each WebSocket and the animation_loop tasks that           *)
(* start_animation creates.  srv is                                        *)
(*   connected_clients  the set self.connected_clients                     *)
(*   running            self.running                                       *)
(*   animation_task     the number of the task self.animation_task, 0      *)
(*                      while the attribute does not exist                 *)
(*   tasks              the animation_loop tasks in order of creation:     *)
(*                      pc is where the task is suspended ("created" not   *)
(*                      yet run, "gather" in broadcast_frame, "sleep" in   *)
(*                      asyncio.sleep, "done"), must_cancel a cancel()     *)
(*                      not yet delivered, clients_list the clients of     *)
(*                      the broadcast under way, ended how the task ended  *)
(*   ep                 for each WebSocket where its websocket_endpoint    *)
(*                      is suspended ("idle" before the connection)        *)
(*   frames             the last run of a task generated a frame           *)
(* A send may fail or time out whenever it is made.                        *)

MaxClients == 2

WebSockets == 1..MaxClients

\* start_animation is called by register_client, once per WebSocket at
\* most: there are no more animation_loop tasks than WebSockets
LoopTasks == 1..MaxClients

\* asyncio.create_task(self.animation_loop())
NewLoopTask == [pc |-> "created", must_cancel |-> FALSE, clients_list |-> {}, ended |-> "no"]

\* Task.cancel(): a request that is delivered when the task next runs; on a
\* task that is done it does nothing
CancelTask(tasks, t) ==
    IF t = 0 \/ tasks[t].pc = "done"
    THEN tasks
    ELSE [tasks EXCEPT ![t].must_cancel = TRUE]

StopAnimationKeepsTask(s) ==
    IF ~s.running THEN s ELSE [s EXCEPT !.running = FALSE]

\* PatternAnimationServer.stop_animation
StopAnimation(s) ==
    IF ~s.running
    THEN s
    ELSE [s EXCEPT !.running = FALSE,
                   !.tasks = CancelTask(@, s.animation_task)]

\* PatternAnimationServer.start_animation (it has no await: it runs whole)
StartAnimation(s) ==
    IF s.running
    THEN s
    ELSE [s EXCEPT !.running = TRUE,
                   !.tasks = Append(@, NewLoopTask),
                   !.animation_task = Len(s.tasks) + 1]

\* PatternAnimationServer.unregister_client
UnregisterClient(s, websocket) ==
    LET discarded == [s EXCEPT !.connected_clients = @ \ {websocket}]
    IN  IF discarded.connected_clients = {}
        THEN StopAnimation(discarded)
        ELSE discarded

\* broadcast_frame lines 153-165: unregister_client for every client whose
\* send failed.  The set only shrinks, so it is empty after some
\* unregister_client exactly if it is empty after the last.
UnregisterFailed(s, failed) ==
    LET discarded == [s EXCEPT !.connected_clients = @ \ failed]
    IN  IF failed # {} /\ discarded.connected_clients = {}
        THEN StopAnimation(discarded)
        ELSE discarded

\* the task t ends
EndTask(s, t, how) ==
    [s EXCEPT !.tasks[t] = [pc |-> "done", must_cancel |-> FALSE,
                            clients_list |-> {}, ended |-> how]]

\* animation_loop from the test of `while self.running` up to its next
\* suspension: the loop is left when running is False or when
\* generate_frame raises (lines 256-257); broadcast_frame returns at once
\* without clients, and the task then sleeps; with clients it awaits the
\* gathered sends
LoopIteration(s, t, raises) ==
    IF ~s.running THEN EndTask(s, t, "stopped")
    ELSE IF raises THEN EndTask(s, t, "error")
    ELSE IF s.connected_clients = {}
    THEN [s EXCEPT !.tasks[t].pc = "sleep", !.frames = TRUE]
    ELSE [s EXCEPT !.tasks[t].pc = "gather",
                   !.tasks[t].clients_list = s.connected_clients,
                   !.frames = TRUE]

\* animation_loop after the gathered sends of broadcast_frame returned:
\* the failed clients are unregistered, then the task sleeps, or, the
\* frame having taken its whole interval, goes round the loop at once
AfterGather(s, t, failed, sleeps, raises) ==
    LET unregistered == UnregisterFailed(s, failed)
    IN  IF sleeps
        THEN [unregistered EXCEPT !.tasks[t].pc = "sleep", !.tasks[t].clients_list = {}]
        ELSE LoopIteration([unregistered EXCEPT !.tasks[t].clients_list = {}], t, raises)

EndpointAt(pc) == [pc |-> pc, target |-> 0, rest |-> {}]

InitServer ==
    /\ srv = [pc |-> "serving",
              connected_clients |-> {},
              running |-> FALSE,
              animation_task |-> 0,
              tasks |-> <<>>,
              frames |-> FALSE,
              ep |-> [w \in WebSockets |-> EndpointAt("idle")]]
    /\ tri = Idle
    /\ beam = Idle
    /\ lin = Idle
    /\ net = Idle
    /\ prim = Idle

\* websocket_endpoint is entered for a new connection and awaits
\* websocket.accept() in register_client
Connect(w) ==
    /\ srv.ep[w].pc = "idle"
    /\ srv' = [srv EXCEPT !.ep[w] = EndpointAt("accept"), !.frames = FALSE]
    /\ UNCHANGED <<tri, beam, lin, net, prim>>

\* register_client lines 61-66: accept returned, the client is added and
\* the send of the SVG structure awaited; or accept raised and the endpoint
\* is left
RegisterClientAccepted(w, accepted) ==
    /\ srv.ep[w].pc = "accept"
    /\ srv' = IF accepted
              THEN [srv EXCEPT !.connected_clients = @ \cup {w},
                               !.ep[w] = EndpointAt("send_svg"),
                               !.frames = FALSE]
              ELSE [srv EXCEPT !.ep[w] = EndpointAt("closed"), !.frames = FALSE]
    /\ UNCHANGED <<tri, beam, lin, net, prim>>

\* register_client lines 68-70: the send returned or failed (the failure is
\* logged in send_svg_structure), the animation is started when it is not
\* running and there are clients, and the endpoint awaits receive_text
RegisterClientStart(w) ==
    /\ srv.ep[w].pc = "send_svg"
    /\ srv' = LET s == [srv EXCEPT !.ep[w] = EndpointAt("receive"), !.frames = FALSE]
              IN  IF ~s.running /\ s.connected_clients # {}
                  THEN StartAnimation(s)
                  ELSE s
    /\ UNCHANGED <<tri, beam, lin, net, prim>>

\* websocket_endpoint lines 388-389: receive_text raised
\* WebSocketDisconnect, the client is unregistered
Disconnect(w) ==
    /\ srv.ep[w].pc = "receive"
    /\ srv' = UnregisterClient([srv EXCEPT !.ep[w] = EndpointAt("closed"),
                                           !.frames = FALSE], w)
    /\ UNCHANGED <<tri, beam, lin, net, prim>>

\* handle_client_message, change_pattern, lines 293-312: the pattern is
\* replaced and the first send of the loop over connected_clients.copy()
\* awaited (a set is iterated in no particular order)
ChangePattern(w, first) ==
    /\ srv.ep[w].pc = "receive"
    /\ first \in srv.connected_clients
    /\ srv' = [srv EXCEPT !.ep[w] = [pc |-> "change_pattern", target |-> first,
                                     rest |-> srv.connected_clients \ {first}],
                          !.frames = FALSE]
    /\ UNCHANGED <<tri, beam, lin, net, prim>>

\* lines 312-318: a send of the change_pattern loop returned or raised; a
\* client whose send raised is discarded; then the next send is awaited,
\* or the handler returns and the endpoint awaits receive_text
ChangePatternSent(w, sent, next) ==
    /\ srv.ep[w].pc = "change_pattern"
    /\ IF srv.ep[w].rest = {} THEN next = 0 ELSE next \in srv.ep[w].rest
    /\ srv' = [srv EXCEPT !.connected_clients =
                              IF sent THEN @ ELSE @ \ {srv.ep[w].target},
                          !.ep[w] = IF next = 0
                                    THEN EndpointAt("receive")
                                    ELSE [pc |-> "change_pattern", target |-> next,
                                          rest |-> srv.ep[w].rest \ {next}],
                          !.frames = FALSE]
    /\ UNCHANGED <<tri, beam, lin, net, prim>>

\* an animation_loop task runs for the first time or wakes from
\* asyncio.sleep: a pending cancel ends it, otherwise it goes round the loop
LoopRuns(t, raises) ==
    /\ t \in 1..Len(srv.tasks)
    /\ srv.tasks[t].pc \in {"created", "sleep"}
    /\ srv' = IF srv.tasks[t].must_cancel
              THEN EndTask([srv EXCEPT !.frames = FALSE], t, "cancelled")
              ELSE LoopIteration([srv EXCEPT !.frames = FALSE], t, raises)
    /\ UNCHANGED <<tri, beam, lin, net, prim>>

\* the gathered sends of broadcast_frame have returned, those to failed
\* having raised or timed out; a pending cancel ends the task instead
BroadcastReturns(t, failed, sleeps, raises) ==
    /\ t \in 1..Len(srv.tasks)
    /\ srv.tasks[t].pc = "gather"
    /\ failed \subseteq srv.tasks[t].clients_list
    /\ srv' = IF srv.tasks[t].must_cancel
              THEN EndTask([srv EXCEPT !.frames = FALSE], t, "cancelled")
              ELSE AfterGather([srv EXCEPT !.frames = FALSE], t, failed, sleeps, raises)
    /\ UNCHANGED <<tri, beam, lin, net, prim>>

NextServer ==
    \/ \E w \in WebSockets : Connect(w)
    \/ \E w \in WebSockets, accepted \in BOOLEAN : RegisterClientAccepted(w, accepted)
    \/ \E w \in WebSockets : RegisterClientStart(w)
    \/ \E w \in WebSockets : Disconnect(w)
    \/ \E w \in WebSockets, first \in WebSockets : ChangePattern(w, first)
    \/ \E w \in WebSockets, sent \in BOOLEAN, next \in {0} \cup WebSockets :
           ChangePatternSent(w, sent, next)
    \/ \E t \in LoopTasks, raises \in BOOLEAN : LoopRuns(t, raises)
    \/ \E t \in LoopTasks, failed \in SUBSET WebSockets,
          sleeps \in BOOLEAN, raises \in BOOLEAN :
           BroadcastReturns(t, failed, sleeps, raises)

SpecServer == InitServer /\ [][NextServer]_vars

---------------------------------------------------------------------------
(* Properties of the animation server (checked under SpecServer) *)

\* no register_client, change_pattern handler or broadcast_frame is under
\* way: every endpoint is before its connection, awaiting a message or
\* left, and no animation_loop task is inside broadcast_frame
NoHandlerInProgress ==
    /\ \A w \in WebSockets : srv.ep[w].pc \in {"idle", "receive", "closed"}
    /\ \A t \in 1..Len(srv.tasks) : srv.tasks[t].pc # "gather"

\* C28: whenever no handler is in progress and connected_clients is empty,
\* the animation is not running.
C28_StoppedWithoutClients ==
    (NoHandlerInProgress /\ srv.connected_clients = {}) => ~srv.running

\* the animation_loop task t can still generate and broadcast a frame: it
\* has not ended and no cancel is pending on it
LoopAlive(t) == srv.tasks[t].pc # "done" /\ ~srv.tasks[t].must_cancel

\* C29: whenever running is True an animation loop is alive, so that with
\* a client connected another frame is generated and broadcast; the loop
\* ends only after running was set to False, even if the generation of a
\* frame raises.
C29_LoopAliveWhileRunning ==
    /\ srv.running => \E t \in 1..Len(srv.tasks) : LoopAlive(t)
    /\ \A t \in 1..Len(srv.tasks) : srv.tasks[t].ended \in {"no", "stopped", "cancelled"}

\* C30: under every interleaving of register_client, unregister_client and
\* the handling of failed broadcasts, at most one animation_loop task that
\* can still generate and broadcast frames exists.
C30_OneLoop ==
    \A t, u \in 1..Len(srv.tasks) : (LoopAlive(t) /\ LoopAlive(u)) => t = u

\* a second animation loop has been started while the first, cancelled,
\* has not yet run to its end
C30_Witness ==
    /\ Len(srv.tasks) = 2
    /\ srv.tasks[1].pc # "done"
    /\ srv.tasks[1].must_cancel
    /\ LoopAlive(2)
    /\ srv.running

===========================================================================
